---- MODULE Spec2Model ----
(***************************************************************************)
(* Content-acquisition core of Inkora: the MemoryCache and the namespace   *)
(* caches of the cache manager, the RateLimiter and fetchWithRetry of      *)
(* networkUtils.js, and the Bato domain failover.                          *)
(*                                                                         *)
(* Time is counted in whole seconds (the backoff unit of the code); the    *)
(* TTLs and the rate window are scaled down to a few seconds.              *)
(***************************************************************************)
EXTENDS Integers, Sequences, FiniteSets, TLC

\* ------------------------------------------------------------------ bounds
NumKeys == 2
MCMaxSize == 1
MCMaxTime == 3
MCMaxTTL == 1

Keys == 1..NumKeys
\* the cache never looks into a value: two distinct ones tell a stale read apart
Values == {1, 2}
\* JS null / undefined / 0: every falsy value the code tests with `x ? .. : ..`
Null == 0

VARIABLES
  now,          \* Date.now(), in seconds
  \* MemoryCache
  memoryCache,  \* a MemoryCache instance: [cache, accessOrder, maxSize]
  recency,      \* stored keys, oldest most-recent get/set first
  written,      \* per key the last set(k, v, ttl) not yet undone by set/delete/eviction
  \* RateLimiter and fetchWithRetry
  requestQueue, \* RateLimiter.requestQueue: timestamps of the admitted requests
  pc,           \* per caller, where its call stands
  wakeAt,       \* per caller, when its pending setTimeout is due
  admitted,     \* the time of every admission by acquire(), in order
  config,       \* per caller, the config of its fetchWithRetry call
  attempt,      \* per caller, the loop variable of fetchWithRetry
  lastError,    \* per caller, the lastError of fetchWithRetry
  result,       \* per caller, what its call returned or threw
  history,      \* per caller, for each attempt of the call: outcome, when, sleep that followed
  sent,         \* the time of every HTTP request sent through the rate-limited fetch
  \* CoverCache / ChapterCache / MangaCache
  namespace,    \* the namespace cache under observation
  nsMemory,     \* its memory tier (coverCache, chapterCache or mangaCache)
  storage,      \* AsyncStorage: the entries under the namespace's key prefix
  ncCall,       \* per caller, its pending namespace cache call
  validUntil,   \* per key and value, c + TTL of the latest set(k, v) at c; -1 once passed
  issued,       \* the callers with an AsyncStorage request pending, in the order issued
  \* Bato domain failover
  CURRENT_BATO_URL, \* the Bato domain that answered last
  batoCall,     \* per caller, the state of its tryBatoDomains call
  firstTried,   \* per caller, the first domain its current call requested
  stickyAtCall, \* per caller, the domain promoted before its current call started
  resolvedAgainst, \* per caller, the domain its records' relative URLs were completed with
  \* mangaService
  svc,          \* the capability call in progress: source, capability, position, result
  \* SourceManager
  sources,      \* this.sources: id -> registered source
  stubSources,  \* this.stubSources: id -> stub source
  isInitialized,\* this.isInitialized
  lastCall,     \* the SourceManager method called last, and its argument
  \* Bato extraction
  html,         \* the markup in hand: per pattern, the blocks extractAll finds
  extracted,    \* the results of the extractions run on html so far
  \* preloadImages
  urls,           \* the urls argument
  concurrent,     \* options.concurrent
  preloadQueue,   \* queue: the positions of urls not yet taken
  loading,        \* per worker (loadNext chain): the position it is loading, or 0
  preloadResults, \* results
  completed,      \* completed
  preloadState,   \* "idle", "running" (awaiting Promise.all), "resolved"
  \* clear() of the namespace caches
  memoryOf,       \* per namespace, its MemoryCache: id -> value
  asyncStorage,   \* AsyncStorage: key -> value, every namespace and Preferences
  clearCall,      \* the clear() call in progress: position, namespace, keys to remove
  settled,        \* the last get or clear() that settled, with what it gave
  \* the two transports: fetchWithTimeout and cloudflareBypassFetch
  transport,      \* the transport call under observation: function, position, loop state
  timers,         \* the attempts whose setTimeout(() => controller.abort()) is still armed
  attemptLog,     \* how each attempt of the call ended, in order
  \* ImageLoaderImpl.loadImage
  loadingImages,  \* this.loadingImages for one cacheKey: the caller whose promise is stored, or 0
  loadCall,       \* per caller, its loadImage call: position, useCache, whose promise it got
  \* BatchImageLoader
  batch,          \* this.loading, this.cancelled, and where start() stands
  delivered,      \* the onImageLoaded / onError callbacks delivered by the run
  \* SourceManager listeners
  listeners,      \* this.listeners
  notified,       \* per listener, the calls it got from the last initialize() or clear()
  \* mangaService.getChapters over the MangaDex feed
  feed,           \* the getChapters call: position, offset, hasMore, allChapters, result
  requested,      \* the offsets of the feed requests of the call, in order
  \* the library in AsyncStorage
  library,        \* the list stored under STORAGE_KEYS.LIBRARY
  libCall,        \* per caller, its addToLibrary call: position, manga, the list it holds
  addedTrue       \* the manga for which an addToLibrary call returned true

mcVars == <<memoryCache, recency, written>>

netVars == <<requestQueue, pc, wakeAt, admitted, config, attempt, lastError, result, history, sent>>

ncVars == <<namespace, nsMemory, storage, ncCall, validUntil, issued>>

batoVars == <<CURRENT_BATO_URL, batoCall, firstTried, stickyAtCall, resolvedAgainst>>

svcVars == <<svc>>

smVars == <<sources, stubSources, isInitialized, lastCall>>

exVars == <<html, extracted>>

plVars == <<urls, concurrent, preloadQueue, loading, preloadResults, completed, preloadState>>

clVars == <<memoryOf, asyncStorage, clearCall, settled>>

tpVars == <<transport, timers, attemptLog>>

ilVars == <<loadingImages, loadCall>>

blVars == <<batch, delivered>>

lsVars == <<listeners, notified>>

gcVars == <<feed, requested>>

lbVars == <<library, libCall, addedTrue>>

vars == <<now, mcVars, netVars, ncVars, batoVars, svcVars, smVars, exVars, plVars, clVars, tpVars, ilVars, blVars, lsVars, gcVars, lbVars>>

\* --------------------------------------------------------- Array helpers
\* Array.prototype.indexOf, 1-based; 0 when the key is not in the array
IndexOf(s, key) ==
  IF \E i \in 1..Len(s) : s[i] = key
  THEN CHOOSE i \in 1..Len(s) : s[i] = key /\ \A j \in 1..(i - 1) : s[j] # key
  ELSE 0

\* const index = arr.indexOf(key); if (index > -1) arr.splice(index, 1)
SpliceKey(s, key) ==
  LET index == IndexOf(s, key) IN
  IF index > 0 THEN SubSeq(s, 1, index - 1) \o SubSeq(s, index + 1, Len(s)) ELSE s

\* Map.prototype.delete
MapDelete(m, key) == [k \in DOMAIN m \ {key} |-> m[k]]

\* Map.prototype.set
MapSet(m, key, entry) == [k \in DOMAIN m \cup {key} |-> IF k = key THEN entry ELSE m[k]]

Min(S) == CHOOSE x \in S : \A y \in S : x <= y

EmptyMap == [k \in {} |-> Null]

\* ------------------------------------------------------------ MemoryCache
NewMemoryCache(maxSize) == [cache |-> EmptyMap, accessOrder |-> <<>>, maxSize |-> maxSize]

\* entry.expiresAt && Date.now() > entry.expiresAt
Expired(entry, t) == entry.expiresAt # Null /\ t > entry.expiresAt

\* MemoryCache.get: the cache afterwards and the value returned
MCGet(mc, key, t) ==
  IF key \notin DOMAIN mc.cache
  THEN [mc |-> mc, value |-> Null]
  ELSE IF Expired(mc.cache[key], t)
  THEN [mc |-> [mc EXCEPT !.cache = MapDelete(mc.cache, key)], value |-> Null]
  ELSE [mc |-> [mc EXCEPT !.accessOrder = Append(SpliceKey(mc.accessOrder, key), key)],
        value |-> mc.cache[key].value]

\* a write that forgets the ttl
NewEntryNoExpiry(value, ttl, t) ==
  [value |-> value, expiresAt |-> Null, cachedAt |-> t]

\* the entry a write at time t with this ttl stores
NewEntry(value, ttl, t) ==
  [value |-> value, expiresAt |-> IF ttl # Null THEN t + ttl ELSE Null, cachedAt |-> t]

\* the first half of MemoryCache.set: evict the head of accessOrder when full
MCEvict(mc, key) ==
  IF Cardinality(DOMAIN mc.cache) >= mc.maxSize /\ key \notin DOMAIN mc.cache
  THEN IF mc.accessOrder = <<>>
       THEN mc
       ELSE [mc EXCEPT !.accessOrder = Tail(mc.accessOrder),
                       !.cache = MapDelete(mc.cache, Head(mc.accessOrder))]
  ELSE mc

\* MemoryCache.set
MCSet(mc, key, value, ttl, t) ==
  LET m1 == MCEvict(mc, key) IN
  [m1 EXCEPT !.cache = MapSet(m1.cache, key, NewEntry(value, ttl, t)),
             !.accessOrder = Append(SpliceKey(m1.accessOrder, key), key)]

\* MemoryCache.delete
MCDelete(mc, key) ==
  [mc EXCEPT !.accessOrder = SpliceKey(mc.accessOrder, key),
             !.cache = MapDelete(mc.cache, key)]

\* MemoryCache.clear
MCClear(mc) == [mc EXCEPT !.cache = EmptyMap, !.accessOrder = <<>>]

\* MemoryCache.size
MCSize(mc) == Cardinality(DOMAIN mc.cache)

\* ------------------------------------------- MemoryCache under its callers
InitMC ==
  /\ memoryCache = NewMemoryCache(MCMaxSize)
  /\ recency = <<>>
  /\ written = EmptyMap

\* the keys of s that are still stored, in the order of s
Stored(s, mc) == SelectSeq(s, LAMBDA k : k \in DOMAIN mc.cache)

MCTick ==
  /\ now < MCMaxTime
  /\ now' = now + 1
  /\ UNCHANGED <<mcVars, netVars, ncVars, batoVars, svcVars, smVars, exVars, plVars, clVars, tpVars, ilVars, blVars, lsVars, gcVars, lbVars>>

OpGet(key) ==
  LET r == MCGet(memoryCache, key, now) IN
  /\ memoryCache' = r.mc
  /\ recency' = IF r.value # Null THEN Append(SpliceKey(recency, key), key)
                ELSE SpliceKey(recency, key)
  /\ UNCHANGED <<now, written, netVars, ncVars, batoVars, svcVars, smVars, exVars, plVars, clVars, tpVars, ilVars, blVars, lsVars, gcVars, lbVars>>

\* has(key) { return this.get(key) !== null }
OpHas(key) ==
  LET r == MCGet(memoryCache, key, now) IN
  /\ memoryCache' = r.mc
  /\ recency' = IF r.value # Null THEN Append(SpliceKey(recency, key), key)
                ELSE SpliceKey(recency, key)
  /\ UNCHANGED <<now, written, netVars, ncVars, batoVars, svcVars, smVars, exVars, plVars, clVars, tpVars, ilVars, blVars, lsVars, gcVars, lbVars>>

OpSet(key, value, ttl) ==
  LET m == MCSet(memoryCache, key, value, ttl, now) IN
  /\ memoryCache' = m
  /\ recency' = Append(SpliceKey(Stored(recency, m), key), key)
  /\ written' = MapSet([k \in DOMAIN written \cap DOMAIN m.cache |-> written[k]], key,
                       [value |-> value, at |-> now, ttl |-> ttl])
  /\ UNCHANGED <<now, netVars, ncVars, batoVars, svcVars, smVars, exVars, plVars, clVars, tpVars, ilVars, blVars, lsVars, gcVars, lbVars>>

OpDelete(key) ==
  /\ memoryCache' = MCDelete(memoryCache, key)
  /\ recency' = SpliceKey(recency, key)
  /\ written' = MapDelete(written, key)
  /\ UNCHANGED <<now, netVars, ncVars, batoVars, svcVars, smVars, exVars, plVars, clVars, tpVars, ilVars, blVars, lsVars, gcVars, lbVars>>

OpClear ==
  /\ memoryCache' = MCClear(memoryCache)
  /\ recency' = <<>>
  /\ written' = EmptyMap
  /\ UNCHANGED <<now, netVars, ncVars, batoVars, svcVars, smVars, exVars, plVars, clVars, tpVars, ilVars, blVars, lsVars, gcVars, lbVars>>

NextMC ==
  \/ MCTick
  \/ \E key \in Keys : OpGet(key)
  \/ \E key \in Keys : OpHas(key)
  \/ \E key \in Keys, value \in Values, ttl \in 0..MCMaxTTL : OpSet(key, value, ttl)
  \/ \E key \in Keys : OpDelete(key)
  \/ OpClear


\* ----------------------------------------------------------- RateLimiter
NumCallers == 3
NumLimitedCallers == 1
RLPermits == 2
RLPeriod == 2
RLMaxTime == 4
MaxAcquires == 4
\* the clock of the runs in which every call has to end: each of the calls may
\* have to wait a period for each other one
RLHorizon == RLMaxTime + MaxAcquires * RLPeriod

Procs == 1..(NumCallers + NumLimitedCallers)
RLCallers == 1..NumCallers
LimitedCallers == 1..NumLimitedCallers

\* requestQueue.filter(timestamp => now - timestamp < periodMs)
InWindow(queue, t) == SelectSeq(queue, LAMBDA timestamp : t - timestamp < RLPeriod)

\* a limit test that lets one request too many through
LimitReachedOffByOne(queue) == Len(queue) > RLPermits

\* this.requestQueue.length >= this.permits
LimitReached(queue) == Len(queue) >= RLPermits

\* a wait that ends after every clock reading of the model
WaitTimeWithoutEnd(queue, t) == RLHorizon + 1

\* waitTime = periodMs - (now - oldestRequest); NaN (not > 0) on an empty queue
WaitTime(queue, t) == IF queue = <<>> THEN 0 ELSE RLPeriod - (t - queue[1])

\* RateLimiter.acquire from its first line to the push or to the await of the
\* timer; `next` is where the caller stands once acquire() has resolved
AcquireBody(p, next) ==
  LET queue == InWindow(requestQueue, now) IN
  IF LimitReached(queue) /\ WaitTime(queue, now) > 0
  THEN /\ requestQueue' = queue
       /\ pc' = [pc EXCEPT ![p] = "waiting"]
       /\ wakeAt' = [wakeAt EXCEPT ![p] = now + WaitTime(queue, now)]
       /\ UNCHANGED admitted
  ELSE /\ requestQueue' = Append(queue, now)
       /\ pc' = [pc EXCEPT ![p] = next]
       /\ admitted' = Append(admitted, now)
       /\ UNCHANGED wakeAt

fetchState == <<config, attempt, lastError, result, history, sent>>

RLTick ==
  /\ now < RLMaxTime
  /\ now' = now + 1
  /\ UNCHANGED <<mcVars, netVars, ncVars, batoVars, svcVars, smVars, exVars, plVars, clVars, tpVars, ilVars, blVars, lsVars, gcVars, lbVars>>

\* a caller calls limiter.acquire()
Acquire(p) ==
  /\ pc[p] = "idle"
  /\ AcquireBody(p, "resolved")
  /\ UNCHANGED <<now, fetchState, mcVars, ncVars, batoVars, svcVars, smVars, exVars, plVars, clVars, tpVars, ilVars, blVars, lsVars, gcVars, lbVars>>

\* the timer of a waiting caller fires: return this.acquire()
AcquireAgain(p) ==
  /\ pc[p] = "waiting"
  /\ now >= wakeAt[p]
  /\ AcquireBody(p, "resolved")
  /\ UNCHANGED <<now, fetchState, mcVars, ncVars, batoVars, svcVars, smVars, exVars, plVars, clVars, tpVars, ilVars, blVars, lsVars, gcVars, lbVars>>

\* the caller goes on after its acquire() resolved
AcquireReturn(p) ==
  /\ pc[p] = "resolved"
  /\ pc' = [pc EXCEPT ![p] = "idle"]
  /\ UNCHANGED <<now, requestQueue, wakeAt, admitted, fetchState, mcVars, ncVars, batoVars, svcVars, smVars, exVars, plVars, clVars, tpVars, ilVars, blVars, lsVars, gcVars, lbVars>>

\* the clock of the runs in which every call has to end
RLTickOn ==
  /\ now < RLHorizon
  /\ now' = now + 1
  /\ UNCHANGED <<mcVars, netVars, ncVars, batoVars, svcVars, smVars, exVars, plVars, clVars, tpVars, ilVars, blVars, lsVars, gcVars, lbVars>>

\* one of finitely many calls of acquire()
AcquireOneOf(p) ==
  /\ Len(admitted) + Cardinality({q \in RLCallers : pc[q] = "waiting"}) < MaxAcquires
  /\ now <= RLMaxTime
  /\ Acquire(p)

NextRLFinite ==
  \/ RLTickOn
  \/ \E p \in RLCallers : AcquireOneOf(p)
  \/ \E p \in RLCallers : AcquireAgain(p)
  \/ \E p \in RLCallers : AcquireReturn(p)

NextRL ==
  \/ RLTick
  \/ \E p \in RLCallers : Acquire(p)
  \/ \E p \in RLCallers : AcquireAgain(p)
  \/ \E p \in RLCallers : AcquireReturn(p)

\* the admissions whose time lies in the window (t - W, t]
AdmittedIn(t) == {i \in DOMAIN admitted : t - RLPeriod < admitted[i] /\ admitted[i] <= t}

\* ---------------------------------------------------------- fetchWithRetry
MaxRetriesBound == 3
FMaxTime == 7
DEFAULT_MAX_RETRIES == 3

Configs == [maxRetries : 0..MaxRetriesBound, checkCloudflare : BOOLEAN]
DefaultConfig == [maxRetries |-> DEFAULT_MAX_RETRIES, checkCloudflare |-> TRUE]

\* a response as the code reads it: status, server header, whether the body
\* contains one of the challenge markers, and whether the body was consumed
Response(status, server, marker) ==
  [status |-> status, server |-> server, marker |-> marker, bodyUsed |-> FALSE]

\* await response.text(): the body can be read once
TextRead(r) == [r EXCEPT !.bodyUsed = TRUE]

\* the response whose text was read, handed on as it is
SameResponse(r) == r

\* new Response(text, {status, statusText, headers}) from a response whose
\* text was read
NewResponse(r) == [r EXCEPT !.bodyUsed = FALSE]
NoResponse == Response(0, "", FALSE)
Responses ==
  { Response(200, "nginx", FALSE), Response(200, "cloudflare", TRUE),
    Response(404, "nginx", FALSE), Response(500, "cloudflare", TRUE),
    Response(503, "cloudflare", TRUE), Response(403, "cloudflare-nginx", TRUE),
    Response(503, "cloudflare", FALSE), Response(403, "nginx", TRUE) }

Err(name, message) == [name |-> name, message |-> message]
NoError == Err("", "")
\* fetch() rejecting: connection / transport failure
ErrNetwork == Err("TypeError", "Network request failed")
\* fetch() rejecting because the controller aborted the request
ErrAbort == Err("AbortError", "Aborted")
\* fetchWithTimeout: throw new Error(`Request timeout after ...`)
ErrTimeout == Err("Error", "Request timeout")
\* throw new Error('Cloudflare challenge could not be bypassed')
ErrChallenge == Err("Error", "Cloudflare challenge could not be bypassed")
\* throw lastError || new Error(`All ${maxRetries} attempts failed for ${url}`)
ErrAllFailed == Err("Error", "All attempts failed")

Outcome(kind, response, error) == [kind |-> kind, response |-> response, error |-> error]

\* a catch block that rethrows whatever fetch rejected with
Rethrown(error) == error

\* the catch block of fetchWithTimeout: an abort becomes the timeout error
TimeoutCaught(error) == IF error.name = "AbortError" THEN ErrTimeout ELSE error

\* what one fetchWithTimeout call can end in: a response, or what its catch
\* block throws when fetch fails or the timer aborts it after timeoutMs
Outcomes ==
  {Outcome("response", r, NoError) : r \in Responses}
    \cup {Outcome("error", NoResponse, TimeoutCaught(e)) : e \in {ErrNetwork, ErrAbort}}
NoResult == Outcome("none", NoResponse, NoError)

\* serverHeader.includes('cloudflare') || serverHeader.includes('cloudflare-nginx')
IsCloudflareServer(server) == server \in {"cloudflare", "cloudflare-nginx"}

\* isCloudflareChallenge(response, responseText)
isCloudflareChallenge(r) ==
  IF (r.status = 403 \/ r.status = 503) /\ IsCloudflareServer(r.server)
  THEN r.marker
  ELSE FALSE

\* Math.pow(2, n) * 1000 ms, in seconds
Pow2(n) == 2 ^ n

\* a challenge backoff that uses the exponent of the ordinary backoff
ChallengeBackoffAsOrdinary(a) == Pow2(a)

\* Math.pow(2, attempt + 1) * 1000 ms
ChallengeBackoff(a) == Pow2(a + 1)

\* an ordinary backoff that uses the exponent of the challenge backoff
ErrorBackoffAsChallenge(a) == Pow2(a + 1)

\* Math.pow(2, attempt) * 1000 ms
ErrorBackoff(a) == Pow2(a)

\* a catch block that keeps the first error it saw
CaughtKeepsFirst(previous, error) == IF previous # NoError THEN previous ELSE error

\* catch (error) { lastError = error }
Caught(previous, error) == error

\* the for-loop test `attempt < maxRetries` and, when it fails, the final throw
LoopHead(p, a, err) ==
  IF a < config[p].maxRetries
  THEN /\ pc' = [pc EXCEPT ![p] = "attempt"]
       /\ result' = result
  ELSE /\ pc' = [pc EXCEPT ![p] = "done"]
       /\ result' = [result EXCEPT ![p] =
            Outcome("error", NoResponse, IF err # NoError THEN err ELSE ErrAllFailed)]

FTick ==
  /\ now < FMaxTime
  /\ now' = now + 1
  /\ UNCHANGED <<mcVars, netVars, ncVars, batoVars, svcVars, smVars, exVars, plVars, clVars, tpVars, ilVars, blVars, lsVars, gcVars, lbVars>>

\* a caller calls fetchWithRetry(url, options, cfg) directly (GET, POST)
CallFetch(p, cfg) ==
  /\ pc[p] = "idle"
  /\ config' = [config EXCEPT ![p] = cfg]
  /\ pc' = [pc EXCEPT ![p] = "enter"]
  /\ UNCHANGED <<now, requestQueue, wakeAt, admitted, attempt, lastError, result, history, sent,
                 mcVars, ncVars, batoVars, svcVars, smVars, exVars, plVars, clVars, tpVars, ilVars, blVars, lsVars, gcVars, lbVars>>

\* fetchWithRetry up to the first loop test
Enter(p) ==
  /\ pc[p] = "enter"
  /\ attempt' = [attempt EXCEPT ![p] = 0]
  /\ lastError' = [lastError EXCEPT ![p] = NoError]
  /\ LoopHead(p, 0, NoError)
  /\ UNCHANGED <<now, requestQueue, wakeAt, admitted, config, history, sent, mcVars, ncVars, batoVars, svcVars, smVars, exVars, plVars, clVars, tpVars, ilVars, blVars, lsVars, gcVars, lbVars>>

\* fetchWithTimeout issues the request of this attempt
Send(p) ==
  /\ pc[p] = "attempt"
  /\ pc' = [pc EXCEPT ![p] = "inflight"]
  /\ sent' = Append(sent, now)
  /\ UNCHANGED <<now, requestQueue, wakeAt, admitted, config, attempt, lastError, result, history,
                 mcVars, ncVars, batoVars, svcVars, smVars, exVars, plVars, clVars, tpVars, ilVars, blVars, lsVars, gcVars, lbVars>>

\* the body of the try block after `await fetchWithTimeout`, and the catch block
Receive(p, o) ==
  /\ pc[p] = "inflight"
  /\ LET a == attempt[p]
         last == ~(a < config[p].maxRetries - 1)
         checked == o.kind = "response" /\ config[p].checkCloudflare
                      /\ (o.response.status = 403 \/ o.response.status = 503)
         blocked == checked /\ isCloudflareChallenge(o.response)
     IN
     IF o.kind = "response" /\ ~blocked
     THEN \* return response / return new Response(text, ...)
          /\ result' = [result EXCEPT ![p] =
               IF checked THEN Outcome("response", NewResponse(TextRead(o.response)), NoError)
               ELSE o]
          /\ pc' = [pc EXCEPT ![p] = "done"]
          /\ history' = [history EXCEPT ![p] = Append(@, [outcome |-> o, at |-> now, sleep |-> 0])]
          /\ UNCHANGED <<wakeAt, attempt, lastError>>
     ELSE IF blocked /\ ~last
     THEN \* await the challenge backoff; continue
          /\ wakeAt' = [wakeAt EXCEPT ![p] = now + ChallengeBackoff(a)]
          /\ pc' = [pc EXCEPT ![p] = "backoff"]
          /\ history' = [history EXCEPT ![p] =
                           Append(@, [outcome |-> o, at |-> now, sleep |-> ChallengeBackoff(a)])]
          /\ UNCHANGED <<attempt, lastError, result>>
     ELSE LET error == Caught(lastError[p], IF blocked THEN ErrChallenge ELSE o.error) IN
          /\ lastError' = [lastError EXCEPT ![p] = error]
          /\ IF ~last
             THEN /\ wakeAt' = [wakeAt EXCEPT ![p] = now + ErrorBackoff(a)]
                  /\ pc' = [pc EXCEPT ![p] = "backoff"]
                  /\ history' = [history EXCEPT ![p] =
                                   Append(@, [outcome |-> o, at |-> now, sleep |-> ErrorBackoff(a)])]
                  /\ UNCHANGED <<attempt, result>>
             ELSE /\ attempt' = [attempt EXCEPT ![p] = a + 1]
                  /\ history' = [history EXCEPT ![p] = Append(@, [outcome |-> o, at |-> now, sleep |-> 0])]
                  /\ LoopHead(p, a + 1, error)
                  /\ UNCHANGED wakeAt
  /\ UNCHANGED <<now, requestQueue, admitted, config, sent, mcVars, ncVars, batoVars, svcVars, smVars, exVars, plVars, clVars, tpVars, ilVars, blVars, lsVars, gcVars, lbVars>>

\* the backoff timer fires: attempt++ and the loop test
BackoffEnds(p) ==
  /\ pc[p] = "backoff"
  /\ now >= wakeAt[p]
  /\ attempt' = [attempt EXCEPT ![p] = attempt[p] + 1]
  /\ LoopHead(p, attempt[p] + 1, lastError[p])
  /\ UNCHANGED <<now, requestQueue, wakeAt, admitted, config, lastError, history, sent,
                 mcVars, ncVars, batoVars, svcVars, smVars, exVars, plVars, clVars, tpVars, ilVars, blVars, lsVars, gcVars, lbVars>>

\* the caller has its response or error; its next call starts afresh
Return(p) ==
  /\ pc[p] = "done"
  /\ pc' = [pc EXCEPT ![p] = "idle"]
  /\ result' = [result EXCEPT ![p] = NoResult]
  /\ history' = [history EXCEPT ![p] = <<>>]
  /\ attempt' = [attempt EXCEPT ![p] = 0]
  /\ lastError' = [lastError EXCEPT ![p] = NoError]
  /\ config' = [config EXCEPT ![p] = DefaultConfig]
  /\ UNCHANGED <<now, requestQueue, wakeAt, admitted, sent, mcVars, ncVars, batoVars, svcVars, smVars, exVars, plVars, clVars, tpVars, ilVars, blVars, lsVars, gcVars, lbVars>>

NextFetch ==
  \/ FTick
  \/ \E cfg \in Configs : CallFetch(1, cfg)
  \/ Enter(1)
  \/ Send(1)
  \/ \E o \in Outcomes : Receive(1, o)
  \/ BackoffEnds(1)

\* ------------------------------------------------- createRateLimitedFetch
\* the returned function: await limiter.acquire(); return fetchWithRetry(...)
CallLimited(p, cfg) ==
  /\ pc[p] = "idle"
  /\ config' = [config EXCEPT ![p] = cfg]
  /\ AcquireBody(p, "enter")
  /\ UNCHANGED <<now, attempt, lastError, result, history, sent, mcVars, ncVars, batoVars, svcVars, smVars, exVars, plVars, clVars, tpVars, ilVars, blVars, lsVars, gcVars, lbVars>>

\* the limiter's timer of a waiting call fires: return this.acquire()
LimitedAgain(p) ==
  /\ pc[p] = "waiting"
  /\ now >= wakeAt[p]
  /\ AcquireBody(p, "enter")
  /\ UNCHANGED <<now, fetchState, mcVars, ncVars, batoVars, svcVars, smVars, exVars, plVars, clVars, tpVars, ilVars, blVars, lsVars, gcVars, lbVars>>

NextLimited ==
  \/ RLTick
  \/ \E p \in LimitedCallers, cfg \in Configs : CallLimited(p, cfg)
  \/ \E p \in LimitedCallers : LimitedAgain(p)
  \/ \E p \in LimitedCallers : Enter(p)
  \/ \E p \in LimitedCallers : Send(p)
  \/ \E p \in LimitedCallers, o \in Outcomes : Receive(p, o)
  \/ \E p \in LimitedCallers : BackoffEnds(p)
  \/ \E p \in LimitedCallers : Return(p)

\* the requests sent in the window (t - W, t]
SentIn(t) == {i \in DOMAIN sent : t - RLPeriod < sent[i] /\ sent[i] <= t}

InitNet ==
  /\ requestQueue = <<>>
  /\ pc = [p \in Procs |-> "idle"]
  /\ wakeAt = [p \in Procs |-> 0]
  /\ admitted = <<>>
  /\ config = [p \in Procs |-> DefaultConfig]
  /\ attempt = [p \in Procs |-> 0]
  /\ lastError = [p \in Procs |-> NoError]
  /\ result = [p \in Procs |-> NoResult]
  /\ history = [p \in Procs |-> <<>>]
  /\ sent = <<>>

\* ------------------------------ CoverCache / ChapterCache / MangaCache
NumNCKeys == 2
NumNCCallers == 2
NCMaxTime == 3
NCBaseTTL == 1
NCBaseSize == 1

NCKeys == 1..NumNCKeys
NCCallers == 1..NumNCCallers
Namespaces == {"covers", "chapters", "manga"}

\* CACHE_EXPIRATION, scaled: MANGA (6 h) < CHAPTERS (1 day) < COVERS (7 days)
CACHE_EXPIRATION(ns) ==
  CASE ns = "manga" -> NCBaseTTL
    [] ns = "chapters" -> NCBaseTTL + 1
    [] ns = "covers" -> NCBaseTTL + 2

\* new MemoryCache(30 | 50 | 100), scaled: chapterCache < mangaCache < coverCache
CacheCapacity(ns) ==
  CASE ns = "chapters" -> NCBaseSize
    [] ns = "manga" -> NCBaseSize + 1
    [] ns = "covers" -> NCBaseSize + 2

NoData == [value |-> Null, expiresAt |-> Null, cachedAt |-> 0]
Call(op, key, data) == [op |-> op, key |-> key, data |-> data]
IdleCall == Call("idle", 0, NoData)

InitNCIn(nss) ==
  /\ namespace \in nss
  /\ nsMemory = NewMemoryCache(CacheCapacity(namespace))
  /\ storage = EmptyMap
  /\ ncCall = [p \in NCCallers |-> IdleCall]
  /\ validUntil = [k \in NCKeys |-> [v \in Values |-> -1]]
  /\ issued = <<>>

NCTick ==
  /\ now < NCMaxTime
  /\ now' = now + 1
  /\ validUntil' = [k \in NCKeys |-> [v \in Values |->
                      IF validUntil[k][v] < now + 1 THEN -1 ELSE validUntil[k][v]]]
  /\ UNCHANGED <<namespace, nsMemory, storage, ncCall, issued, mcVars, netVars, batoVars, svcVars, smVars, exVars, plVars, clVars, tpVars, ilVars, blVars, lsVars, gcVars, lbVars>>

\* CoverCache.get up to the await of getFromStorage
NCGet(p, key) ==
  /\ ncCall[p].op = "idle"
  /\ LET r == MCGet(nsMemory, key, now) IN
     /\ nsMemory' = r.mc
     /\ IF r.value # Null
        THEN UNCHANGED <<ncCall, issued>>
        ELSE /\ ncCall' = [ncCall EXCEPT ![p] = Call("getItem", key, NoData)]
             /\ issued' = Append(issued, p)
  /\ UNCHANGED <<now, namespace, storage, validUntil, mcVars, netVars, batoVars, svcVars, smVars, exVars, plVars, clVars, tpVars, ilVars, blVars, lsVars, gcVars, lbVars>>

\* AsyncStorage serves its requests in the order they were issued
StorageTurn(p) == issued # <<>> /\ Head(issued) = p

\* getFromStorage: AsyncStorage.getItem resolves (or rejects), the expiry test
NCGetItem(p, fails) ==
  /\ ncCall[p].op = "getItem"
  /\ StorageTurn(p)
  /\ LET c == ncCall[p] IN
     IF fails \/ c.key \notin DOMAIN storage
     THEN /\ ncCall' = [ncCall EXCEPT ![p] = IdleCall]
          /\ issued' = Tail(issued)
     ELSE IF Expired(storage[c.key], now)
     THEN /\ ncCall' = [ncCall EXCEPT ![p] = Call("removeItem", c.key, NoData)]
          /\ issued' = Append(Tail(issued), p)
     ELSE /\ ncCall' = [ncCall EXCEPT ![p] = Call("promote", c.key, storage[c.key])]
          /\ issued' = Tail(issued)
  /\ UNCHANGED <<now, namespace, nsMemory, storage, validUntil, mcVars, netVars, batoVars, svcVars, smVars, exVars, plVars, clVars, tpVars, ilVars, blVars, lsVars, gcVars, lbVars>>

\* getFromStorage: AsyncStorage.removeItem of the expired entry, return null
NCRemoveExpired(p, fails) ==
  /\ ncCall[p].op = "removeItem"
  /\ StorageTurn(p)
  /\ issued' = Tail(issued)
  /\ storage' = IF fails THEN storage ELSE MapDelete(storage, ncCall[p].key)
  /\ ncCall' = [ncCall EXCEPT ![p] = IdleCall]
  /\ UNCHANGED <<now, namespace, nsMemory, validUntil, mcVars, netVars, batoVars, svcVars, smVars, exVars, plVars, clVars, tpVars, ilVars, blVars, lsVars, gcVars, lbVars>>

\* if (cover) coverCache.set(mangaId, cover, CACHE_EXPIRATION.COVERS)
Promote(mc, key, data, t) ==
  MCSet(mc, key, data.value, CACHE_EXPIRATION(namespace), t)

\* CoverCache.get after getFromStorage returned a value
NCPromote(p) ==
  /\ ncCall[p].op = "promote"
  /\ nsMemory' = Promote(nsMemory, ncCall[p].key, ncCall[p].data, now)
  /\ ncCall' = [ncCall EXCEPT ![p] = IdleCall]
  /\ UNCHANGED <<now, namespace, storage, validUntil, issued, mcVars, netVars, batoVars, svcVars, smVars, exVars, plVars, clVars, tpVars, ilVars, blVars, lsVars, gcVars, lbVars>>

\* CoverCache.set up to the await of AsyncStorage.setItem
NCSet(p, key, value) ==
  /\ ncCall[p].op = "idle"
  /\ nsMemory' = MCSet(nsMemory, key, value, CACHE_EXPIRATION(namespace), now)
  /\ ncCall' = [ncCall EXCEPT ![p] =
       Call("setItem", key, NewEntry(value, CACHE_EXPIRATION(namespace), now))]
  /\ validUntil' = [validUntil EXCEPT ![key][value] = now + CACHE_EXPIRATION(namespace)]
  /\ issued' = Append(issued, p)
  /\ UNCHANGED <<now, namespace, storage, mcVars, netVars, batoVars, svcVars, smVars, exVars, plVars, clVars, tpVars, ilVars, blVars, lsVars, gcVars, lbVars>>

\* saveToStorage: AsyncStorage.setItem resolves, or rejects and is logged
NCSetItem(p, fails) ==
  /\ ncCall[p].op = "setItem"
  /\ StorageTurn(p)
  /\ issued' = Tail(issued)
  /\ storage' = IF fails THEN storage ELSE MapSet(storage, ncCall[p].key, ncCall[p].data)
  /\ ncCall' = [ncCall EXCEPT ![p] = IdleCall]
  /\ UNCHANGED <<now, namespace, nsMemory, validUntil, mcVars, netVars, batoVars, svcVars, smVars, exVars, plVars, clVars, tpVars, ilVars, blVars, lsVars, gcVars, lbVars>>

\* CoverCache.delete up to the await of AsyncStorage.removeItem
NCDelete(p, key) ==
  /\ ncCall[p].op = "idle"
  /\ nsMemory' = MCDelete(nsMemory, key)
  /\ ncCall' = [ncCall EXCEPT ![p] = Call("deleteItem", key, NoData)]
  /\ issued' = Append(issued, p)
  /\ UNCHANGED <<now, namespace, storage, validUntil, mcVars, netVars, batoVars, svcVars, smVars, exVars, plVars, clVars, tpVars, ilVars, blVars, lsVars, gcVars, lbVars>>

\* CoverCache.delete: AsyncStorage.removeItem resolves or rejects
NCDeleteItem(p, fails) ==
  /\ ncCall[p].op = "deleteItem"
  /\ StorageTurn(p)
  /\ issued' = Tail(issued)
  /\ storage' = IF fails THEN storage ELSE MapDelete(storage, ncCall[p].key)
  /\ ncCall' = [ncCall EXCEPT ![p] = IdleCall]
  /\ UNCHANGED <<now, namespace, nsMemory, validUntil, mcVars, netVars, batoVars, svcVars, smVars, exVars, plVars, clVars, tpVars, ilVars, blVars, lsVars, gcVars, lbVars>>

\* the process restarts: the module-level memory caches are built anew, the
\* pending calls are gone, AsyncStorage is kept
NCRestart ==
  /\ nsMemory' = NewMemoryCache(CacheCapacity(namespace))
  /\ ncCall' = [p \in NCCallers |-> IdleCall]
  /\ issued' = <<>>
  /\ UNCHANGED <<now, namespace, storage, validUntil, mcVars, netVars, batoVars, svcVars, smVars, exVars, plVars, clVars, tpVars, ilVars, blVars, lsVars, gcVars, lbVars>>

\* one caller at a time: every call is awaited before the next is made
OneCaller == {Min(NCCallers)}

NextNC ==
  \/ NCTick
  \/ \E p \in OneCaller, key \in NCKeys : NCGet(p, key)
  \/ \E p \in OneCaller, fails \in BOOLEAN : NCGetItem(p, fails)
  \/ \E p \in OneCaller, fails \in BOOLEAN : NCRemoveExpired(p, fails)
  \/ \E p \in OneCaller : NCPromote(p)
  \/ \E p \in OneCaller, key \in NCKeys, value \in Values : NCSet(p, key, value)
  \/ \E p \in OneCaller, fails \in BOOLEAN : NCSetItem(p, fails)
  \/ \E p \in OneCaller, key \in NCKeys : NCDelete(p, key)
  \/ \E p \in OneCaller, fails \in BOOLEAN : NCDeleteItem(p, fails)
  \/ NCRestart

\* the callers that contend for the same key
ContendedKeys == {Min(NCKeys)}

\* concurrent get / set / delete calls on one key, over an AsyncStorage whose
\* operations succeed
NextNCConcurrent ==
  \/ \E p \in NCCallers, key \in ContendedKeys : NCGet(p, key)
  \/ \E p \in NCCallers : NCGetItem(p, FALSE)
  \/ \E p \in NCCallers : NCPromote(p)
  \/ \E p \in NCCallers, key \in ContendedKeys, value \in Values : NCSet(p, key, value)
  \/ \E p \in NCCallers : NCSetItem(p, FALSE)
  \/ \E p \in NCCallers, key \in ContendedKeys : NCDelete(p, key)
  \/ \E p \in NCCallers : NCDeleteItem(p, FALSE)
  \/ NCRestart

\* ------------------------------------------- clear() of a namespace cache
\* a key of AsyncStorage is a string; it is kept as the sequence of its parts
Inkora == "inkora_"

\* CACHE_KEYS
CACHE_KEYS(ns) ==
  CASE ns = "covers" -> <<Inkora, "covers_">>
    [] ns = "chapters" -> <<Inkora, "chapters_">>
    [] ns = "manga" -> <<Inkora, "manga_">>
    [] ns = "extensions" -> <<Inkora, "extensions">>
    [] ns = "preferences" -> <<Inkora, "prefs_">>

CacheIds == {"1", "2"}
PreferenceKeys == {"theme"}

\* `${CACHE_KEYS.COVERS}${mangaId}`
StorageKey(ns, id) == Append(CACHE_KEYS(ns), id)

\* key.startsWith(prefix)
StartsWith(key, prefix) ==
  Len(key) >= Len(prefix) /\ SubSeq(key, 1, Len(prefix)) = prefix

\* a filter on the part that all keys of the application share
AllInkoraKeys(keys, prefix) == {key \in keys : StartsWith(key, <<Inkora>>)}

\* keys.filter(key => key.startsWith(CACHE_KEYS.COVERS))
OwnKeys(keys, prefix) == {key \in keys : StartsWith(key, prefix)}

ClearCall(pcv, ns, keys) == [pc |-> pcv, ns |-> ns, keys |-> keys]
NoClear == ClearCall("idle", "covers", {})

Settled(op, ns, id, value, outcome) ==
  [op |-> op, ns |-> ns, id |-> id, value |-> value, outcome |-> outcome]
NothingSettled == Settled("none", "covers", "", Null, "")

InitClear ==
  /\ memoryOf = [ns \in Namespaces |-> EmptyMap]
  /\ asyncStorage = EmptyMap
  /\ clearCall = NoClear
  /\ settled = NothingSettled

\* CoverCache.set(id, value), AsyncStorage.setItem succeeding
CacheSet(ns, id, value) ==
  /\ clearCall.pc = "idle"
  /\ memoryOf' = [memoryOf EXCEPT ![ns] = MapSet(@, id, value)]
  /\ asyncStorage' = MapSet(asyncStorage, StorageKey(ns, id), value)
  /\ UNCHANGED <<now, clearCall, settled, mcVars, netVars, ncVars, batoVars, svcVars, smVars, exVars, plVars, tpVars, ilVars, blVars, lsVars, gcVars, lbVars>>

\* CoverCache.get(id): the memory tier, else the persistent tier; Null for absent
CacheGetValue(ns, id) ==
  IF id \in DOMAIN memoryOf[ns] THEN memoryOf[ns][id]
  ELSE IF StorageKey(ns, id) \in DOMAIN asyncStorage THEN asyncStorage[StorageKey(ns, id)]
  ELSE Null

\* CoverCache.get(id): a value found in the persistent tier is put into memory
CacheGet(ns, id) ==
  /\ clearCall.pc = "idle"
  /\ memoryOf' = IF CacheGetValue(ns, id) # Null
                 THEN [memoryOf EXCEPT ![ns] = MapSet(@, id, CacheGetValue(ns, id))]
                 ELSE memoryOf
  /\ settled' = Settled("get", ns, id, CacheGetValue(ns, id), "resolved")
  /\ UNCHANGED <<now, asyncStorage, clearCall, mcVars, netVars, ncVars, batoVars, svcVars, smVars, exVars, plVars, tpVars, ilVars, blVars, lsVars, gcVars, lbVars>>

\* Preferences.set(key, value)
PreferencesSet(key, value) ==
  /\ clearCall.pc = "idle"
  /\ asyncStorage' = MapSet(asyncStorage, StorageKey("preferences", key), value)
  /\ UNCHANGED <<now, memoryOf, clearCall, settled, mcVars, netVars, ncVars, batoVars, svcVars, smVars, exVars, plVars, tpVars, ilVars, blVars, lsVars, gcVars, lbVars>>

\* ExtensionsCache.set(extensions)
ExtensionsSet(value) ==
  /\ clearCall.pc = "idle"
  /\ asyncStorage' = MapSet(asyncStorage, CACHE_KEYS("extensions"), value)
  /\ UNCHANGED <<now, memoryOf, clearCall, settled, mcVars, netVars, ncVars, batoVars, svcVars, smVars, exVars, plVars, tpVars, ilVars, blVars, lsVars, gcVars, lbVars>>

\* the process restarts: the memory caches are built anew
MemoryLost ==
  /\ clearCall.pc = "idle"
  /\ memoryOf' = [ns \in Namespaces |-> EmptyMap]
  /\ UNCHANGED <<now, asyncStorage, clearCall, settled, mcVars, netVars, ncVars, batoVars, svcVars, smVars, exVars, plVars, tpVars, ilVars, blVars, lsVars, gcVars, lbVars>>

\* CoverCache.clear() up to the await of getAllKeys: coverCache.clear()
Clear_(ns) ==
  /\ clearCall.pc = "idle"
  /\ memoryOf' = [memoryOf EXCEPT ![ns] = EmptyMap]
  /\ clearCall' = ClearCall("getAllKeys", ns, {})
  /\ UNCHANGED <<now, asyncStorage, settled, mcVars, netVars, ncVars, batoVars, svcVars, smVars, exVars, plVars, tpVars, ilVars, blVars, lsVars, gcVars, lbVars>>

\* getAllKeys resolves and the keys are filtered, or it rejects and so does clear()
ClearGetAllKeys(fails) ==
  /\ clearCall.pc = "getAllKeys"
  /\ clearCall' =
       IF fails THEN ClearCall("rejected", clearCall.ns, {})
       ELSE ClearCall("multiRemove", clearCall.ns,
                      OwnKeys(DOMAIN asyncStorage, CACHE_KEYS(clearCall.ns)))
  /\ UNCHANGED <<now, memoryOf, asyncStorage, settled, mcVars, netVars, ncVars, batoVars, svcVars, smVars, exVars, plVars, tpVars, ilVars, blVars, lsVars, gcVars, lbVars>>

\* multiRemove resolves and clear() with it, or it rejects and so does clear()
ClearMultiRemove(fails) ==
  /\ clearCall.pc = "multiRemove"
  /\ asyncStorage' =
       IF fails THEN asyncStorage
       ELSE [key \in DOMAIN asyncStorage \ clearCall.keys |-> asyncStorage[key]]
  /\ clearCall' = ClearCall(IF fails THEN "rejected" ELSE "resolved", clearCall.ns, clearCall.keys)
  /\ UNCHANGED <<now, memoryOf, settled, mcVars, netVars, ncVars, batoVars, svcVars, smVars, exVars, plVars, tpVars, ilVars, blVars, lsVars, gcVars, lbVars>>

\* the caller of clear() goes on
ClearReturn ==
  /\ clearCall.pc \in {"resolved", "rejected"}
  /\ clearCall' = NoClear
  /\ settled' = Settled("clear", clearCall.ns, "", Null, clearCall.pc)
  /\ UNCHANGED <<now, memoryOf, asyncStorage, mcVars, netVars, ncVars, batoVars, svcVars, smVars, exVars, plVars, tpVars, ilVars, blVars, lsVars, gcVars, lbVars>>

NextClear ==
  \/ \E ns \in Namespaces, id \in CacheIds : CacheSet(ns, id, Min(Values))
  \/ \E ns \in Namespaces, id \in CacheIds : CacheGet(ns, id)
  \/ \E key \in PreferenceKeys : PreferencesSet(key, Min(Values))
  \/ ExtensionsSet(Min(Values))
  \/ MemoryLost
  \/ \E ns \in Namespaces : Clear_(ns)
  \/ \E fails \in BOOLEAN : ClearGetAllKeys(fails)
  \/ \E fails \in BOOLEAN : ClearMultiRemove(fails)
  \/ ClearReturn

\* ------------------------------------------------- Bato domain failover
NumBatoCallers == 2
BATO_MAX_RETRIES == 3

BatoCallers == 1..NumBatoCallers
BATO_DOMAINS == <<"https://bato.to", "https://battwo.com", "https://mto.to">>

\* throw new Error(`HTTP error! status: ${response.status}`)
ErrHttp == Err("Error", "HTTP error")
\* throw lastError || new Error(`All ${maxRetries} fetch attempts failed for ${url}`)
ErrAllFetchesFailed == Err("Error", "All fetch attempts failed")
\* throw new Error('All Bato domains failed')
ErrAllDomainsFailed == Err("Error", "All Bato domains failed")

\* what one fetch() of cloudflareBypassFetch can end in
BatoOutcomes ==
  {Outcome("response", r, NoError) : r \in Responses}
    \cup {Outcome("error", NoResponse, e) : e \in {ErrNetwork, ErrAbort}}

BatoCall(pcv, domain, att, err, res, sleep) ==
  [pc |-> pcv, domain |-> domain, attempt |-> att, lastError |-> err, result |-> res,
   sleep |-> sleep]
BatoIdle == BatoCall("idle", 0, 0, NoError, NoResult, 0)

InitBato ==
  /\ CURRENT_BATO_URL = BATO_DOMAINS[1]
  /\ batoCall = [p \in BatoCallers |-> BatoIdle]
  /\ firstTried = [p \in BatoCallers |-> ""]
  /\ stickyAtCall = [p \in BatoCallers |-> ""]
  /\ resolvedAgainst = [p \in BatoCallers |-> ""]

\* for (const domain of BATO_DOMAINS): the index the loop starts with
FirstDomain(current) == 1

\* a caller calls tryBatoDomains(path)
TryBatoDomains(p) ==
  /\ batoCall[p].pc = "idle"
  /\ batoCall' = [batoCall EXCEPT ![p] =
        BatoCall("fetch", FirstDomain(CURRENT_BATO_URL), 0, NoError, NoResult, 0)]
  /\ stickyAtCall' = [stickyAtCall EXCEPT ![p] = CURRENT_BATO_URL]
  /\ firstTried' = [firstTried EXCEPT ![p] = ""]
  /\ resolvedAgainst' = [resolvedAgainst EXCEPT ![p] = ""]
  /\ UNCHANGED <<now, CURRENT_BATO_URL, mcVars, netVars, ncVars, svcVars, smVars, exVars, plVars, clVars, tpVars, ilVars, blVars, lsVars, gcVars, lbVars>>

\* cloudflareBypassFetch: fetch(url, fetchOptions) is issued
BatoSend(p) ==
  /\ batoCall[p].pc = "fetch"
  /\ batoCall' = [batoCall EXCEPT ![p].pc = "inflight"]
  /\ firstTried' = [firstTried EXCEPT ![p] =
        IF @ = "" THEN BATO_DOMAINS[batoCall[p].domain] ELSE @]
  /\ UNCHANGED <<now, CURRENT_BATO_URL, stickyAtCall, resolvedAgainst, mcVars, netVars, ncVars, svcVars, smVars, exVars, plVars, clVars, tpVars, ilVars, blVars, lsVars, gcVars, lbVars>>

\* response.ok
IsOk(o) == o.kind = "response" /\ o.response.status >= 200 /\ o.response.status <= 299

\* the inline challenge test of cloudflareBypassFetch
IsBatoChallenge(o) ==
  /\ o.kind = "response"
  /\ (o.response.status = 403 \/ o.response.status = 503)
  /\ IsCloudflareServer(o.response.server)
  /\ o.response.marker

\* a failover that passes over the candidate that follows
NextDomainSkipsOne(c) ==
  IF c.domain + 1 < Len(BATO_DOMAINS)
  THEN BatoCall("fetch", c.domain + 2, 0, NoError, NoResult, 0)
  ELSE BatoCall("done", c.domain, c.attempt, c.lastError,
                Outcome("error", NoResponse, ErrAllDomainsFailed), 0)

\* tryBatoDomains: the call of cloudflareBypassFetch for this domain threw, or
\* its response was not ok: the next domain, or 'All Bato domains failed'
NextDomain(c) ==
  IF c.domain < Len(BATO_DOMAINS)
  THEN BatoCall("fetch", c.domain + 1, 0, NoError, NoResult, 0)
  ELSE BatoCall("done", c.domain, c.attempt, c.lastError,
                Outcome("error", NoResponse, ErrAllDomainsFailed), 0)

\* cloudflareBypassFetch after `await fetch`, and what tryBatoDomains does
\* with a response or an error it gets back
BatoReceive(p, o) ==
  /\ batoCall[p].pc = "inflight"
  /\ LET c == batoCall[p]
         a == c.attempt
     IN
     IF IsBatoChallenge(o)
     THEN \* await setTimeout(2000 * (attempt + 1)); continue
          /\ batoCall' = [batoCall EXCEPT ![p] =
                BatoCall("sleep", c.domain, a, c.lastError, NoResult, 2 * (a + 1))]
          /\ UNCHANGED CURRENT_BATO_URL
     ELSE IF o.kind = "response" /\ (IsOk(o) \/ o.response.status = 404)
     THEN \* return response
          IF IsOk(o)
          THEN /\ CURRENT_BATO_URL' = BATO_DOMAINS[c.domain]
               /\ batoCall' = [batoCall EXCEPT ![p] =
                     BatoCall("done", c.domain, a, c.lastError, o, 0)]
          ELSE /\ batoCall' = [batoCall EXCEPT ![p] = NextDomain(c)]
               /\ UNCHANGED CURRENT_BATO_URL
     ELSE \* catch (error): lastError = error, backoff unless it was the last attempt
          LET error == IF o.kind = "error" THEN o.error ELSE ErrHttp IN
          /\ batoCall' = [batoCall EXCEPT ![p] =
                IF a < BATO_MAX_RETRIES - 1
                THEN BatoCall("sleep", c.domain, a, error, NoResult, 2 ^ a)
                ELSE NextDomain(c)]
          /\ UNCHANGED CURRENT_BATO_URL
  /\ UNCHANGED <<now, firstTried, stickyAtCall, resolvedAgainst, mcVars, netVars, ncVars, svcVars, smVars, exVars, plVars, clVars, tpVars, ilVars, blVars, lsVars, gcVars, lbVars>>

\* a sleep after which the same attempt is made again: no attempt++
BatoWakeSameAttempt(p) ==
  /\ batoCall[p].pc = "sleep"
  /\ LET c == batoCall[p] IN
     batoCall' = [batoCall EXCEPT ![p] =
        IF c.attempt < BATO_MAX_RETRIES
        THEN BatoCall("fetch", c.domain, c.attempt, c.lastError, NoResult, 0)
        ELSE NextDomain(c)]
  /\ UNCHANGED <<now, CURRENT_BATO_URL, firstTried, stickyAtCall, resolvedAgainst, mcVars, netVars, ncVars, svcVars, smVars, exVars, plVars, clVars, tpVars, ilVars, blVars, lsVars, gcVars, lbVars>>

\* a sleep of cloudflareBypassFetch ends: attempt++ and the loop test
BatoWake(p) ==
  /\ batoCall[p].pc = "sleep"
  /\ LET c == batoCall[p] IN
     batoCall' = [batoCall EXCEPT ![p] =
        IF c.attempt + 1 < BATO_MAX_RETRIES
        THEN BatoCall("fetch", c.domain, c.attempt + 1, c.lastError, NoResult, 0)
        ELSE NextDomain(c)]
  /\ UNCHANGED <<now, CURRENT_BATO_URL, firstTried, stickyAtCall, resolvedAgainst, mcVars, netVars, ncVars, svcVars, smVars, exVars, plVars, clVars, tpVars, ilVars, blVars, lsVars, gcVars, lbVars>>

\* parseMangaCard, after `await response.text()`: relative URLs are completed
\* with CURRENT_BATO_URL as it is by then
BatoParse(p) ==
  /\ batoCall[p].pc = "done"
  /\ IsOk(batoCall[p].result)
  /\ batoCall' = [batoCall EXCEPT ![p].pc = "parsed"]
  /\ resolvedAgainst' = [resolvedAgainst EXCEPT ![p] = CURRENT_BATO_URL]
  /\ UNCHANGED <<now, CURRENT_BATO_URL, firstTried, stickyAtCall, mcVars, netVars, ncVars, svcVars, smVars, exVars, plVars, clVars, tpVars, ilVars, blVars, lsVars, gcVars, lbVars>>

\* the caller has its records or its error
BatoReturn(p) ==
  /\ batoCall[p].pc \in {"done", "parsed"}
  /\ batoCall' = [batoCall EXCEPT ![p] = BatoIdle]
  /\ UNCHANGED <<now, CURRENT_BATO_URL, firstTried, stickyAtCall, resolvedAgainst, mcVars, netVars, ncVars, svcVars, smVars, exVars, plVars, clVars, tpVars, ilVars, blVars, lsVars, gcVars, lbVars>>

NextBato ==
  \/ \E p \in BatoCallers : TryBatoDomains(p)
  \/ \E p \in BatoCallers : BatoSend(p)
  \/ \E p \in BatoCallers, o \in BatoOutcomes : BatoReceive(p, o)
  \/ \E p \in BatoCallers : BatoWake(p)
  \/ \E p \in BatoCallers : BatoParse(p)
  \/ \E p \in BatoCallers : BatoReturn(p)

\* one tryBatoDomains call at a time
BatoOne == Min(BatoCallers)

NextBatoOne ==
  \/ TryBatoDomains(BatoOne)
  \/ BatoSend(BatoOne)
  \/ \E o \in BatoOutcomes : BatoReceive(BatoOne, o)
  \/ BatoWake(BatoOne)
  \/ BatoParse(BatoOne)
  \/ BatoReturn(BatoOne)

\* ------------------------------- fetchWithTimeout and cloudflareBypassFetch
NotTransport == <<now, mcVars, netVars, ncVars, batoVars, svcVars, smVars, exVars, plVars, clVars, ilVars, blVars, lsVars, gcVars, lbVars>>

Transports == {"fetchWithTimeout", "cloudflareBypassFetch"}

Transport(fn, pcv, att, err, res, sleep) ==
  [fn |-> fn, pc |-> pcv, attempt |-> att, lastError |-> err, result |-> res, sleep |-> sleep]
NoTransport == Transport("", "idle", 0, NoError, NoResult, 0)

InitTransport ==
  /\ transport = NoTransport
  /\ timers = {}
  /\ attemptLog = <<>>

\* how an attempt ended, as the log keeps it
EndOf(o) ==
  IF IsBatoChallenge(o) THEN "challenge"
  ELSE IF o.kind = "response" THEN "response"
  ELSE IF o.error = ErrAbort THEN "abort"
  ELSE "error"

\* throw lastError || new Error(`All ${maxRetries} fetch attempts failed for ${url}`)
Thrown(err) == IF err # NoError THEN err ELSE ErrAllFetchesFailed

\* one of the two functions is called
TransportCall(fn) ==
  /\ transport.pc = "idle"
  /\ transport' = Transport(fn, "fetch", 0, NoError, NoResult, 0)
  /\ UNCHANGED <<timers, attemptLog>>
  /\ UNCHANGED NotTransport

\* new AbortController(); setTimeout(() => controller.abort(), timeoutMs); fetch(...)
TransportSend ==
  /\ transport.pc = "fetch"
  /\ transport' = [transport EXCEPT !.pc = "inflight"]
  /\ timers' = timers \cup {transport.attempt}
  /\ UNCHANGED attemptLog
  /\ UNCHANGED NotTransport

\* fetchWithTimeout after `await fetch`: clearTimeout in the try block and in
\* the catch block, then the response or the error
TimeoutSettled(o, armed) ==
  [call |-> Transport("fetchWithTimeout", "done", 0, NoError,
                      IF o.kind = "response" THEN o
                      ELSE Outcome("error", NoResponse, TimeoutCaught(o.error)), 0),
   timers |-> armed \ {0}]

\* cloudflareBypassFetch after `await fetch`: the challenge sleep, clearTimeout
\* and return or throw, and the catch block
BypassSettled(c, o, armed) ==
  LET a == c.attempt
      \* catch (error): lastError = error; backoff unless it was the last attempt
      caught(error) ==
        IF a < BATO_MAX_RETRIES - 1
        THEN Transport(c.fn, "sleep", a, error, NoResult, Pow2(a))
        ELSE Transport(c.fn, "done", a + 1, error, Outcome("error", NoResponse, Thrown(error)), 0)
  IN IF IsBatoChallenge(o)
     THEN \* await setTimeout(2000 * (attempt + 1)); continue
          [call |-> Transport(c.fn, "sleep", a, c.lastError, NoResult, 2 * (a + 1)),
           timers |-> armed]
     ELSE IF o.kind = "response"
     THEN \* clearTimeout(timeoutId), then return response or throw the HTTP error
          [call |-> IF IsOk(o) \/ o.response.status = 404
                    THEN Transport(c.fn, "done", a, c.lastError, o, 0)
                    ELSE caught(ErrHttp),
           timers |-> armed \ {a}]
     ELSE [call |-> caught(o.error), timers |-> armed]

\* what fetch() gives an attempt when its timer has fired (the abort), and
\* when it has not
Settlements(a) ==
  IF a \in timers THEN {o \in BatoOutcomes : o.error # ErrAbort}
  ELSE {Outcome("error", NoResponse, ErrAbort)}

\* the fetch of the attempt in flight settles
TransportSettles(o) ==
  /\ transport.pc = "inflight"
  /\ o \in Settlements(transport.attempt)
  /\ LET after == IF transport.fn = "fetchWithTimeout"
                  THEN TimeoutSettled(o, timers)
                  ELSE BypassSettled(transport, o, timers)
     IN /\ transport' = after.call
        /\ timers' = after.timers
  /\ attemptLog' = Append(attemptLog, EndOf(o))
  /\ UNCHANGED NotTransport

\* a sleep of cloudflareBypassFetch ends: attempt++, the loop test, and after
\* the loop the throw
BypassWake ==
  /\ transport.pc = "sleep"
  /\ transport' =
       IF transport.attempt + 1 < BATO_MAX_RETRIES
       THEN Transport(transport.fn, "fetch", transport.attempt + 1, transport.lastError, NoResult, 0)
       ELSE Transport(transport.fn, "done", transport.attempt + 1, transport.lastError,
                      Outcome("error", NoResponse, Thrown(transport.lastError)), 0)
  /\ UNCHANGED <<timers, attemptLog>>
  /\ UNCHANGED NotTransport

\* timeoutMs after it was armed a timer fires: controller.abort()
TimerFires(a) ==
  /\ a \in timers
  /\ timers' = timers \ {a}
  /\ UNCHANGED <<transport, attemptLog>>
  /\ UNCHANGED NotTransport

NextTransport ==
  \/ \E fn \in Transports : TransportCall(fn)
  \/ TransportSend
  \/ \E o \in BatoOutcomes : TransportSettles(o)
  \/ BypassWake
  \/ \E a \in 0..(BATO_MAX_RETRIES - 1) : TimerFires(a)

\* --------------------------------------------------------- Bato extraction
MaxBlocks == 4
MaxListed == 3

\* the strategies of mangaPatterns, in their declared order
mangaPatterns == <<"div.item-", "a.card", "article">>

\* what parseMangaCard can find in a block: the identifier of an href, a
\* title, a cover; "" stands for a part the block lacks
Card(id, title, cover) == [id |-> id, title |-> title, cover |-> cover]
Cards ==
  { Card("a", "A", "/covers/a.jpg"), Card("a", "", ""),
    Card("", "A", "/covers/a.jpg"), Card("", "", "") }

SeqsUpTo(S, n) == UNION {[1..k -> S] : k \in 0..n}

\* markup, as the blocks each pattern matches in it
Markups ==
  { m \in [DOMAIN mangaPatterns -> SeqsUpTo(Cards, MaxBlocks)] :
      Len(m[1]) + Len(m[2]) + Len(m[3]) <= MaxBlocks }
NoMarkup == [k \in DOMAIN mangaPatterns |-> <<>>]

\* extractAll(html, pattern): a fresh RegExp per call, every match in order
extractAll(markup, pattern) == markup[pattern]

\* the absolute form of a cover URL that does not start with 'http'
Absolute(current, cover) == IF cover = "" THEN "" ELSE current \o cover

\* parseMangaCard(html): id (null when no href resolves), title, coverUrl
parseMangaCard(card, current) ==
  [id |-> card.id,
   title |-> IF card.title = "" THEN "Unknown Title" ELSE card.title,
   coverUrl |-> Absolute(current, card.cover)]

\* a loop that goes through every pattern and keeps all their matches
PatternLoopMerging(markup, k) ==
  [mangaCards |-> markup[1] \o markup[2] \o markup[3],
   pattern |-> IF markup[1] \o markup[2] \o markup[3] = <<>> THEN 0 ELSE 1,
   evaluated |-> Len(mangaPatterns)]

\* for (const pattern of mangaPatterns) { mangaCards = extractAll(html, pattern);
\* if (mangaCards.length > 0) break; } from the k-th pattern on: the cards, the
\* pattern that gave them (0 for none), the number of patterns evaluated
RECURSIVE PatternLoop(_, _)
PatternLoop(markup, k) ==
  IF k > Len(mangaPatterns)
  THEN [mangaCards |-> <<>>, pattern |-> 0, evaluated |-> k - 1]
  ELSE IF extractAll(markup, k) # <<>>
  THEN [mangaCards |-> extractAll(markup, k), pattern |-> k, evaluated |-> k]
  ELSE PatternLoop(markup, k + 1)

\* the pattern the loop stops at, or 0
Winner(markup) == PatternLoop(markup, 1).pattern

\* a filter that also discards a block without title
KeptWithTitle(manga) == manga.id # "" /\ manga.title # "Unknown Title"

\* if (manga && manga.id)
Kept(manga) == manga.id # ""

\* results.slice(0, 20), the page size scaled to MaxListed
Slice(results) == SubSeq(results, 1, IF Len(results) < MaxListed THEN Len(results) ELSE MaxListed)

\* searchBatoManga / getBatoPopularManga / getBatoLatestUpdates from the
\* markup on: the cards of the winning pattern, parsed, filtered, sliced
Listing(markup, current) ==
  LET loop == PatternLoop(markup, 1)
      parsed == [i \in DOMAIN loop.mangaCards |-> parseMangaCard(loop.mangaCards[i], current)]
      results == SelectSeq(parsed, Kept)
  IN [records |-> Slice(results), pattern |-> loop.pattern, evaluated |-> loop.evaluated]

InitExtractIn(markups) ==
  /\ html \in markups
  /\ extracted = <<>>

InitExtract == InitExtractIn({NoMarkup})

\* a listing call extracts the records from the markup
ExtractListing ==
  /\ Len(extracted) < 2
  /\ extracted' = Append(extracted, Listing(html, CURRENT_BATO_URL))
  /\ UNCHANGED <<now, html, mcVars, netVars, ncVars, batoVars, svcVars, smVars, plVars, clVars, tpVars, ilVars, blVars, lsVars, gcVars, lbVars>>

\* tryBatoDomains of another call succeeds: CURRENT_BATO_URL = domain
DomainPromoted(domain) ==
  /\ CURRENT_BATO_URL' = domain
  /\ UNCHANGED <<now, batoCall, firstTried, stickyAtCall, resolvedAgainst,
                 mcVars, netVars, ncVars, svcVars, smVars, exVars, plVars, clVars, tpVars, ilVars, blVars, lsVars, gcVars, lbVars>>

NextExtract ==
  \/ ExtractListing
  \/ \E i \in DOMAIN BATO_DOMAINS : DomainPromoted(BATO_DOMAINS[i])

\* ---------------------------------------------------------------- loadImage
NumLoaders == 2
Loaders == 1..NumLoaders

NotLoader == <<now, mcVars, netVars, ncVars, batoVars, svcVars, smVars, exVars, plVars, clVars, tpVars, blVars, lsVars, gcVars, lbVars>>

LoadCall(pcv, useCache, shares) == [pc |-> pcv, useCache |-> useCache, shares |-> shares]

InitLoader ==
  /\ loadingImages = Null
  /\ loadCall = [p \in Loaders |-> LoadCall("idle", FALSE, Null)]

\* loadImage(url, {useCache}) up to its first await: the promise already
\* stored, or the cache lookup, or the fetch
LoadImage(p, useCache) ==
  /\ loadCall[p].pc = "idle"
  /\ IF loadingImages # Null
     THEN \* return this.loadingImages.get(cacheKey)
          /\ loadCall' = [loadCall EXCEPT ![p] = LoadCall("shared", useCache, loadingImages)]
          /\ UNCHANGED loadingImages
     ELSE IF useCache
     THEN \* await getCachedImage(cacheKey, 'pages')
          /\ loadCall' = [loadCall EXCEPT ![p] = LoadCall("getCachedImage", useCache, Null)]
          /\ UNCHANGED loadingImages
     ELSE \* loadPromise = this._fetchImage(...); this.loadingImages.set(cacheKey, loadPromise)
          /\ loadCall' = [loadCall EXCEPT ![p] = LoadCall("_fetchImage", useCache, Null)]
          /\ loadingImages' = p
  /\ UNCHANGED NotLoader

\* getCachedImage resolves: the cached uri is returned, or the fetch starts
\* and its promise is stored
CacheAnswers(p, cached) ==
  /\ loadCall[p].pc = "getCachedImage"
  /\ IF cached
     THEN /\ loadCall' = [loadCall EXCEPT ![p].pc = "done"]
          /\ UNCHANGED loadingImages
     ELSE /\ loadCall' = [loadCall EXCEPT ![p].pc = "_fetchImage"]
          /\ loadingImages' = p
  /\ UNCHANGED NotLoader

\* the promise of _fetchImage settles: downloadAndCacheImage is awaited when
\* useCache and the fetch gave a uri, otherwise the finally block runs:
\* this.loadingImages.delete(cacheKey)
FetchSettles(p, ok) ==
  /\ loadCall[p].pc = "_fetchImage"
  /\ IF ok /\ loadCall[p].useCache
     THEN /\ loadCall' = [loadCall EXCEPT ![p].pc = "downloadAndCacheImage"]
          /\ UNCHANGED loadingImages
     ELSE /\ loadCall' = [loadCall EXCEPT ![p].pc = "done"]
          /\ loadingImages' = Null
  /\ UNCHANGED NotLoader

\* downloadAndCacheImage settles: the finally block runs
CachingSettles(p) ==
  /\ loadCall[p].pc = "downloadAndCacheImage"
  /\ loadCall' = [loadCall EXCEPT ![p].pc = "done"]
  /\ loadingImages' = Null
  /\ UNCHANGED NotLoader

\* a caller that was handed another call's promise gets its outcome once
\* that call has settled
SharedSettles(p) ==
  /\ loadCall[p].pc = "shared"
  /\ loadCall[loadCall[p].shares].pc \in {"done", "idle"}
  /\ loadCall' = [loadCall EXCEPT ![p].pc = "done"]
  /\ UNCHANGED loadingImages
  /\ UNCHANGED NotLoader

\* the caller of loadImage goes on
LoadReturn(p) ==
  /\ loadCall[p].pc = "done"
  /\ \A q \in Loaders : loadCall[q].pc = "shared" => loadCall[q].shares # p
  /\ loadCall' = [loadCall EXCEPT ![p] = LoadCall("idle", FALSE, Null)]
  /\ UNCHANGED loadingImages
  /\ UNCHANGED NotLoader

NextLoader ==
  \/ \E p \in Loaders, useCache \in BOOLEAN : LoadImage(p, useCache)
  \/ \E p \in Loaders, cached \in BOOLEAN : CacheAnswers(p, cached)
  \/ \E p \in Loaders, ok \in BOOLEAN : FetchSettles(p, ok)
  \/ \E p \in Loaders : CachingSettles(p)
  \/ \E p \in Loaders : SharedSettles(p)
  \/ \E p \in Loaders : LoadReturn(p)

\* ----------------------------------------------------------- preloadImages
MaxUrls == 3
MaxConcurrent == 2
NumImages == 2

ImageUrls == 1..NumImages
UrlLists == SeqsUpTo(ImageUrls, MaxUrls)
\* a worker is one chain of loadNext calls; there can be no more than urls
Workers == 1..MaxUrls

\* the loop bound that starts one worker more than asked for
StartedOneMore(c, n) == IF c + 1 < n THEN c + 1 ELSE n

\* Math.min(concurrent, urls.length)
Started(c, n) == IF c < n THEN c ELSE n

\* a failing load that ends its worker: no loadNext() after it
AfterFailureStops(ok, remaining) == ok /\ remaining # <<>>

\* finally { completed++; await loadNext(); }: the worker goes on, after a
\* success and after a failure, as long as the queue is not empty
GoesOn(ok, remaining) == remaining # <<>>

Entry(url, success) == [url |-> url, success |-> success]

InitPreload ==
  /\ urls = <<>>
  /\ concurrent = 1
  /\ preloadQueue = <<>>
  /\ loading = [w \in Workers |-> 0]
  /\ preloadResults = <<>>
  /\ completed = 0
  /\ preloadState = "idle"

\* preloadImages(urls, {concurrent: c}) up to `await Promise.all(promises)`:
\* each loadNext() started by the loop shifts one url and awaits its load
Preloading(list, c) ==
  /\ preloadState \in {"idle", "resolved"}
  /\ urls' = list
  /\ concurrent' = c
  /\ LET n == Started(c, Len(list)) IN
       /\ loading' = [w \in Workers |-> IF w <= n THEN w ELSE 0]
       /\ preloadQueue' = [i \in 1..(Len(list) - n) |-> n + i]
  /\ preloadResults' = <<>>
  /\ completed' = 0
  /\ preloadState' = "running"

\* a caller calls preloadImages(urls, {concurrent: c})
PreloadImages(list, c) ==
  /\ Preloading(list, c)
  /\ UNCHANGED <<now, mcVars, netVars, ncVars, batoVars, svcVars, smVars, exVars, clVars, tpVars, ilVars, blVars, lsVars, gcVars, lbVars>>

\* the load of worker w settles: the result is pushed, completed++, and
\* loadNext() shifts the next url or returns on an empty queue
LoadSettles(w, ok) ==
  /\ preloadState = "running"
  /\ loading[w] # 0
  /\ preloadResults' = Append(preloadResults, Entry(loading[w], ok))
  /\ completed' = completed + 1
  /\ IF GoesOn(ok, preloadQueue)
       THEN /\ loading' = [loading EXCEPT ![w] = Head(preloadQueue)]
            /\ preloadQueue' = Tail(preloadQueue)
       ELSE /\ loading' = [loading EXCEPT ![w] = 0]
            /\ UNCHANGED preloadQueue
  /\ UNCHANGED <<urls, concurrent, preloadState>>
  /\ UNCHANGED <<now, mcVars, netVars, ncVars, batoVars, svcVars, smVars, exVars, clVars, tpVars, ilVars, blVars, lsVars, gcVars, lbVars>>

\* every promise of `promises` has resolved: return results
PreloadResolves ==
  /\ preloadState = "running"
  /\ \A w \in Workers : loading[w] = 0
  /\ preloadState' = "resolved"
  /\ UNCHANGED <<urls, concurrent, preloadQueue, loading, preloadResults, completed>>
  /\ UNCHANGED <<now, mcVars, netVars, ncVars, batoVars, svcVars, smVars, exVars, clVars, tpVars, ilVars, blVars, lsVars, gcVars, lbVars>>

NextPreload ==
  \/ \E list \in UrlLists, c \in 1..MaxConcurrent : PreloadImages(list, c)
  \/ \E w \in Workers, ok \in BOOLEAN : LoadSettles(w, ok)
  \/ PreloadResolves

\* --------------------------------------------------------- BatchImageLoader
NotBatch == <<now, mcVars, netVars, ncVars, batoVars, svcVars, smVars, exVars, clVars, tpVars, lsVars, gcVars, lbVars>>

Batch(loadingFlag, cancelled, pcv) == [loading |-> loadingFlag, cancelled |-> cancelled, pc |-> pcv]

InitBatch ==
  /\ batch = Batch(FALSE, FALSE, "idle")
  /\ delivered = 0

\* start() up to `await loader.preloadImages(this.urls, ...)`; one run of a
\* loader is followed at a time
BatchStart(list, c) ==
  /\ ~batch.loading
  /\ batch.pc = "idle"
  /\ batch' = Batch(TRUE, FALSE, "preloadImages")
  /\ delivered' = 0
  /\ Preloading(list, c)
  /\ UNCHANGED ilVars
  /\ UNCHANGED NotBatch

\* start() after preloadImages has resolved: results.forEach calls
\* onImageLoaded or onError for every entry, then finally loading = false
BatchDelivers ==
  /\ batch.pc = "preloadImages"
  /\ preloadState = "resolved"
  /\ delivered' = delivered + Len(preloadResults)
  /\ batch' = [batch EXCEPT !.loading = FALSE, !.pc = "idle"]
  /\ UNCHANGED plVars
  /\ UNCHANGED ilVars
  /\ UNCHANGED NotBatch

\* cancel(): the two flags, and clearAll() of the image loader
BatchCancel ==
  /\ batch' = [batch EXCEPT !.cancelled = TRUE, !.loading = FALSE]
  /\ loadingImages' = Null
  /\ UNCHANGED <<delivered, loadCall>>
  /\ UNCHANGED plVars
  /\ UNCHANGED NotBatch

NextBatch ==
  \/ \E list \in UrlLists, c \in 1..MaxConcurrent : BatchStart(list, c)
  \/ \E w \in Workers, ok \in BOOLEAN : LoadSettles(w, ok)
  \/ PreloadResolves
  \/ BatchDelivers
  \/ BatchCancel

\* ------------------------------------------------------------ mangaService
MaxRecords == 1

\* a source as mangaService reads it: its baseUrl; NoSource is a null source
Source(baseUrl) == [baseUrl |-> baseUrl]
NoSource == Source("null")
BatoSource == Source("https://bato.to")
XbatoSource == Source("https://xbato.com")
MangaDexSource == Source("https://mangadex.org")
\* registerStubSource / createStubSource: baseUrl ''
StubSource == Source("")
Sources == {NoSource, BatoSource, XbatoSource, MangaDexSource, StubSource}

Capabilities == {"search", "details"}

\* BUILT_IN_SOURCES: the `service` registered with a built-in source, "" for none
ServiceOf(source) ==
  IF source = BatoSource THEN "BatoService"
  ELSE IF source = XbatoSource THEN "XbatoService"
  ELSE ""

\* url.includes('bato') || ... || url.includes('mto.to')
isBatoSource(source) ==
  IF source = NoSource \/ source.baseUrl = "" THEN FALSE
  ELSE source.baseUrl \in {"https://bato.to", "https://xbato.com", "https://mto.to"}

\* source.baseUrl.includes('mangadex')
IsMangaDex(source) == source.baseUrl = "https://mangadex.org"

\* GET(url, {}, { maxRetries: 2, checkCloudflare: false })
DexConfig == [maxRetries |-> 2, checkCloudflare |-> FALSE]

\* what a capability call resolves with: a list of records, an object, null
SvcResult(kind, records) == [kind |-> kind, records |-> records]
NoSvcResult == SvcResult("none", 0)
\* the catch blocks and the unsupported branch: return [] (return null for details)
EmptyResult(capability) ==
  IF capability = "details" THEN SvcResult("null", 0) ELSE SvcResult("list", 0)
\* the mapped records of a search, the object of details
Found(capability, records) ==
  IF capability = "details" THEN SvcResult("object", 1) ELSE SvcResult("list", records)

Svc(pcv, source, capability, res) ==
  [pc |-> pcv, source |-> source, capability |-> capability, result |-> res]

InitSvc == svc = Svc("idle", NoSource, "search", NoSvcResult)

\* searchManga / getMangaDetails up to its first await
SearchManga(source, capability) ==
  /\ svc.pc = "idle"
  /\ isBatoSource(source) => capability = "search"
  /\ svc' =
       IF isBatoSource(source) THEN Svc("callBato", source, capability, NoSvcResult)
       ELSE IF source = NoSource
       THEN \* source.baseUrl throws a TypeError, which the catch block swallows
            Svc("done", source, capability, EmptyResult(capability))
       ELSE IF ~IsMangaDex(source)
       THEN \* "Source not supported yet"
            Svc("done", source, capability, EmptyResult(capability))
       ELSE Svc("callDex", source, capability, NoSvcResult)
  /\ UNCHANGED <<now, mcVars, netVars, ncVars, batoVars, smVars, exVars, plVars, clVars, tpVars, ilVars, blVars, lsVars, gcVars, lbVars>>

\* searchBatoManga: const response = await tryBatoDomains(searchPath)
SvcTryBato == svc.pc = "callBato" /\ TryBatoDomains(1)

\* mangaService: const response = await GET(url, {}, {...})
SvcGet == svc.pc = "callDex" /\ CallFetch(1, DexConfig)

\* a catch block that lets the error through to the caller
Rejected(capability) == SvcResult("error", 0)

\* catch (error) { console.error(...); return []; }
Swallowed(capability) == EmptyResult(capability)

\* searchBatoManga after tryBatoDomains settled: `await response.text()`
\* resolves or rejects, the markup yields `records` cards; an error of
\* tryBatoDomains or of text() goes to catch
SvcBatoDone(records, textRejects) ==
  /\ svc.pc = "callBato"
  /\ batoCall[1].pc = "done"
  /\ svc' = [svc EXCEPT !.pc = "done",
                        !.result = IF batoCall[1].result.kind = "response" /\ ~textRejects
                                   THEN Found(svc.capability, records)
                                   ELSE Swallowed(svc.capability)]
  /\ UNCHANGED <<now, mcVars, netVars, ncVars, batoVars, smVars, exVars, plVars, clVars, tpVars, ilVars, blVars, lsVars, gcVars, lbVars>>

\* the bodies a JSON endpoint can answer with
Bodies == [json : {"empty", "invalid", "valid"}, records : 0..MaxRecords]

\* mangaService after GET settled: parseJSON and the mapping of data.data; a
\* thrown error (GET, !response.ok, invalid JSON, null data) goes to catch
SvcDexDone(body) ==
  /\ svc.pc = "callDex"
  /\ pc[1] = "done"
  /\ svc' = [svc EXCEPT !.pc = "done",
                        !.result = IF IsOk(result[1]) /\ body.json = "valid"
                                   THEN Found(svc.capability, body.records)
                                   ELSE EmptyResult(svc.capability)]
  /\ UNCHANGED <<now, mcVars, netVars, ncVars, batoVars, smVars, exVars, plVars, clVars, tpVars, ilVars, blVars, lsVars, gcVars, lbVars>>

NextSvc ==
  \/ FTick
  \/ \E source \in Sources, capability \in Capabilities : SearchManga(source, capability)
  \/ SvcTryBato
  \/ BatoSend(1)
  \/ \E o \in BatoOutcomes : BatoReceive(1, o)
  \/ BatoWake(1)
  \/ \E records \in 0..MaxRecords, textRejects \in BOOLEAN : SvcBatoDone(records, textRejects)
  \/ SvcGet
  \/ Enter(1)
  \/ Send(1)
  \/ \E o \in Outcomes : Receive(1, o)
  \/ BackoffEnds(1)
  \/ \E body \in Bodies : SvcDexDone(body)

\* ------------------------------------------------- getChapters (MangaDex)
\* const limit = 100, scaled down
FeedLimit == 2
\* `offset < 500` with limit = 100: five pages
FeedPages == 5
FeedCap == FeedPages * FeedLimit

NotFeed == <<now, mcVars, netVars, ncVars, batoVars, svcVars, smVars, exVars, plVars, clVars, tpVars, ilVars, blVars, lsVars, lbVars>>

\* the chapters a feed page can hold: the API returns no more than `limit`
ChapterIds == {"c1", "c2"}
FeedPageBodies == SeqsUpTo(ChapterIds, FeedLimit)

Feed(pcv, offset, hasMore, allChapters, res) ==
  [pc |-> pcv, offset |-> offset, hasMore |-> hasMore, allChapters |-> allChapters,
   result |-> res]

InitFeed ==
  /\ feed = Feed("idle", 0, TRUE, <<>>, <<>>)
  /\ requested = <<>>

\* a loop test that lets the offset reach the cap
FeedableToCap(hasMore, offset) == hasMore /\ offset <= FeedCap

\* while (hasMore && offset < 500)
Feedable(hasMore, offset) == hasMore /\ offset < FeedCap

\* the loop test, then the GET of the next page or `return allChapters`
FeedLoop(offset, hasMore, allChapters) ==
  IF Feedable(hasMore, offset)
  THEN Feed("GET", offset, hasMore, allChapters, <<>>)
  ELSE Feed("done", offset, hasMore, allChapters, allChapters)

\* getChapters(mangaId, source) for a MangaDex source, up to the first GET
GetChapters ==
  /\ feed.pc = "idle"
  /\ feed' = FeedLoop(0, TRUE, <<>>)
  /\ requested' = <<0>>
  /\ UNCHANGED NotFeed

\* the GET and parseJSON of a page settle: the chapters are appended,
\* hasMore and offset are updated and the loop goes on; or one of them
\* throws and the catch block returns []
FeedAnswers(ok, data) ==
  /\ feed.pc = "GET"
  /\ feed' = IF ok
             THEN FeedLoop(feed.offset + FeedLimit, Len(data) = FeedLimit,
                           feed.allChapters \o data)
             ELSE Feed("done", feed.offset, feed.hasMore, feed.allChapters, <<>>)
  /\ requested' = IF feed'.pc = "GET" THEN Append(requested, feed'.offset) ELSE requested
  /\ UNCHANGED NotFeed

\* the caller has its chapters
GetChaptersReturn ==
  /\ feed.pc = "done"
  /\ feed' = Feed("idle", 0, TRUE, <<>>, <<>>)
  /\ requested' = <<>>
  /\ UNCHANGED NotFeed

NextFeed ==
  \/ GetChapters
  \/ \E ok \in BOOLEAN, data \in FeedPageBodies : FeedAnswers(ok, data)
  \/ GetChaptersReturn

\* ------------------------------------------------------------------ library
NumLibraryCallers == 2
LibraryCallers == 1..NumLibraryCallers
\* a manga is known by its (id, sourceId)
LibraryMangas == {<<"m1", "bato_to">>, <<"m2", "bato_to">>}

NotLibrary == <<now, mcVars, netVars, ncVars, batoVars, svcVars, smVars, exVars, plVars, clVars, tpVars, ilVars, blVars, lsVars, gcVars>>

LibCall(pcv, manga, list, returned) ==
  [pc |-> pcv, manga |-> manga, list |-> list, returned |-> returned]
NoLibCall == LibCall("idle", <<"", "">>, <<>>, FALSE)

InitLibrary ==
  /\ library = <<>>
  /\ libCall = [p \in LibraryCallers |-> NoLibCall]
  /\ addedTrue = {}

\* library.find(m => m.id === manga.id && m.sourceId === manga.sourceId)
Exists(list, manga) == \E i \in DOMAIN list : list[i] = manga

\* addToLibrary(manga) up to `await getLibrary()`
AddToLibrary(p, manga) ==
  /\ libCall[p].pc = "idle"
  /\ libCall' = [libCall EXCEPT ![p] = LibCall("getLibrary", manga, <<>>, FALSE)]
  /\ UNCHANGED <<library, addedTrue>>
  /\ UNCHANGED NotLibrary

\* getLibrary resolves with the stored list: return false when the manga is
\* in it, else library.push(libraryManga) and `await AsyncStorage.setItem`
LibraryRead(p) ==
  /\ libCall[p].pc = "getLibrary"
  /\ libCall' = [libCall EXCEPT ![p] =
        IF Exists(library, libCall[p].manga)
        THEN LibCall("done", libCall[p].manga, library, FALSE)
        ELSE LibCall("setItem", libCall[p].manga, Append(library, libCall[p].manga), FALSE)]
  /\ UNCHANGED <<library, addedTrue>>
  /\ UNCHANGED NotLibrary

\* setItem resolves, the list of this call is stored and the call returns
\* true; or it rejects and the catch block returns false
LibraryWrite(p, ok) ==
  /\ libCall[p].pc = "setItem"
  /\ library' = IF ok THEN libCall[p].list ELSE library
  /\ libCall' = [libCall EXCEPT ![p].pc = "done", ![p].returned = ok]
  /\ addedTrue' = IF ok THEN addedTrue \cup {libCall[p].manga} ELSE addedTrue
  /\ UNCHANGED NotLibrary

\* the caller has its true or false
LibraryReturn(p) ==
  /\ libCall[p].pc = "done"
  /\ libCall' = [libCall EXCEPT ![p] = NoLibCall]
  /\ UNCHANGED <<library, addedTrue>>
  /\ UNCHANGED NotLibrary

NextLibrary ==
  \/ \E p \in LibraryCallers, manga \in LibraryMangas : AddToLibrary(p, manga)
  \/ \E p \in LibraryCallers : LibraryRead(p)
  \/ \E p \in LibraryCallers, ok \in BOOLEAN : LibraryWrite(p, ok)
  \/ \E p \in LibraryCallers : LibraryReturn(p)

\* ----------------------------------------------------------- SourceManager
\* SourceType
HTTP == "http"
LOCAL_FILES == "local"
STUB == "stub"

\* a source as the manager stores it
SourceRec(id, name, lang, type, isStub) ==
  [id |-> id, name |-> name, lang |-> lang, type |-> type, isStub |-> isStub]

BUILT_IN_SOURCES ==
  << SourceRec("bato_to", "Bato", "en", HTTP, FALSE),
     SourceRec("xbato_com", "Xbato", "en", HTTP, FALSE),
     SourceRec("mangadex_org", "MangaDex", "all", HTTP, FALSE) >>

\* an id that is not built in
ExtraIds == {"ext"}
\* the ids callers look up and register; NoId is a missing (falsy) id
NoId == ""
CallerIds == {"bato_to"} \cup ExtraIds
Langs == {"en", "all"}

\* generateSourceId(name, lang): a hash of `${name}/${lang}/1`, as a string
generateSourceId(name, lang) == "#" \o name \o "/" \o lang \o "/1"

\* the sources callers register: with or without id, of any type, and also a
\* stub object obtained from getSourceOrStub
Registrable ==
  { SourceRec(id, "Ext", lang, type, FALSE) : id \in CallerIds \cup {NoId}, lang \in Langs, type \in {HTTP, LOCAL_FILES} }
    \cup { SourceRec(id, "Ext", "unknown", STUB, TRUE) : id \in CallerIds }

\* registerSource: the stored object, isStub forced to false after the spread
Enriched(source) ==
  [source EXCEPT !.id = IF source.id # NoId THEN source.id
                        ELSE generateSourceId(source.name, source.lang),
                 !.isStub = FALSE]

\* a registration that lets the isStub of the given object through
RegisteredKeepsStubFlag(srcs, source) ==
  LET e == [Enriched(source) EXCEPT !.isStub = source.isStub] IN MapSet(srcs, e.id, e)

\* this.sources.set(enrichedSource.id, enrichedSource)
Registered(srcs, source) == MapSet(srcs, Enriched(source).id, Enriched(source))

\* the stub object of registerStubSource and createStubSource
Stub(id, name) == SourceRec(id, name, "unknown", STUB, TRUE)

\* the null that a lookup returns
NoSourceFound == [isNull |-> TRUE]

\* getSource(sourceId): this.sources.get(sourceId) || null
getSource(srcs, id) == IF id \in DOMAIN srcs THEN srcs[id] ELSE NoSourceFound

\* getSourceOrStub(sourceId): the value returned and the stubSources it leaves
getSourceOrStub(srcs, stubs, id) ==
  IF id \in DOMAIN srcs THEN [value |-> srcs[id], stubSources |-> stubs]
  ELSE IF id \in DOMAIN stubs THEN [value |-> stubs[id], stubSources |-> stubs]
  ELSE \* createStubSource(sourceId)
       [value |-> Stub(id, "Source " \o id),
        stubSources |-> MapSet(stubs, id, Stub(id, "Source " \o id))]

\* getOnlineSources(): the registered sources of type HTTP that are no stubs
getOnlineSources(srcs) ==
  {srcs[id] : id \in {i \in DOMAIN srcs : srcs[i].type = HTTP /\ ~srcs[i].isStub}}

\* getSourcesByLanguage(lang)
getSourcesByLanguage(srcs, lang) ==
  {source \in getOnlineSources(srcs) : source.lang = lang \/ source.lang = "all"}

\* getAvailableLanguages(): the set of languages (returned sorted)
getAvailableLanguages(srcs) == {source.lang : source \in getOnlineSources(srcs)}

Called(method, arg) == [method |-> method, arg |-> arg]

InitSM ==
  /\ sources = EmptyMap
  /\ stubSources = EmptyMap
  /\ isInitialized = FALSE
  /\ lastCall = Called("constructor", NoId)

NumListeners == 2
ListenerIds == 1..NumListeners

InitListeners ==
  /\ listeners = {}
  /\ notified = [l \in ListenerIds |-> 0]

\* a notifyListeners that calls every listener a second time
notifyListenersTwice(ls) == [l \in ListenerIds |-> IF l \in ls THEN 2 ELSE 0]

\* notifyListeners(): this.listeners.forEach(callback => callback(...))
notifyListeners(ls) == [l \in ListenerIds |-> IF l \in ls THEN 1 ELSE 0]

\* initialize(): registers the built-in sources once
Initialize ==
  /\ lastCall' = Called("initialize", NoId)
  /\ IF isInitialized
       THEN /\ UNCHANGED <<sources, stubSources, isInitialized>>
            /\ notified' = notifyListeners({})
       ELSE /\ sources' = Registered(Registered(Registered(sources,
                              BUILT_IN_SOURCES[1]), BUILT_IN_SOURCES[2]), BUILT_IN_SOURCES[3])
            /\ isInitialized' = TRUE
            /\ UNCHANGED stubSources
            /\ notified' = notifyListeners(listeners)
  /\ UNCHANGED listeners
  /\ UNCHANGED <<now, mcVars, netVars, ncVars, batoVars, svcVars, exVars, plVars, clVars, tpVars, ilVars, blVars, gcVars, lbVars>>

\* addListener(callback)
AddListener(l) ==
  /\ listeners' = listeners \cup {l}
  /\ lastCall' = Called("addListener", NoId)
  /\ UNCHANGED <<sources, stubSources, isInitialized, notified>>
  /\ UNCHANGED <<now, mcVars, netVars, ncVars, batoVars, svcVars, exVars, plVars, clVars, tpVars, ilVars, blVars, gcVars, lbVars>>

\* the function addListener returned is called: this.listeners.delete(callback)
RemoveListener(l) ==
  /\ listeners' = listeners \ {l}
  /\ lastCall' = Called("removeListener", NoId)
  /\ UNCHANGED <<sources, stubSources, isInitialized, notified>>
  /\ UNCHANGED <<now, mcVars, netVars, ncVars, batoVars, svcVars, exVars, plVars, clVars, tpVars, ilVars, blVars, gcVars, lbVars>>

RegisterSource(source) ==
  /\ sources' = Registered(sources, source)
  /\ lastCall' = Called("registerSource", Enriched(source).id)
  /\ UNCHANGED <<stubSources, isInitialized>>
  /\ UNCHANGED <<now, mcVars, netVars, ncVars, batoVars, svcVars, exVars, plVars, clVars, tpVars, ilVars, blVars, lsVars, gcVars, lbVars>>

\* registerStubSource(id, name = 'Unknown Source')
RegisterStubSource(id) ==
  /\ stubSources' = MapSet(stubSources, id, Stub(id, "Unknown Source"))
  /\ lastCall' = Called("registerStubSource", id)
  /\ UNCHANGED <<sources, isInitialized>>
  /\ UNCHANGED <<now, mcVars, netVars, ncVars, batoVars, svcVars, exVars, plVars, clVars, tpVars, ilVars, blVars, lsVars, gcVars, lbVars>>

GetSource(id) ==
  /\ lastCall' = Called("getSource", id)
  /\ UNCHANGED <<sources, stubSources, isInitialized>>
  /\ UNCHANGED <<now, mcVars, netVars, ncVars, batoVars, svcVars, exVars, plVars, clVars, tpVars, ilVars, blVars, lsVars, gcVars, lbVars>>

GetSourceOrStub(id) ==
  /\ stubSources' = getSourceOrStub(sources, stubSources, id).stubSources
  /\ lastCall' = Called("getSourceOrStub", id)
  /\ UNCHANGED <<sources, isInitialized>>
  /\ UNCHANGED <<now, mcVars, netVars, ncVars, batoVars, svcVars, exVars, plVars, clVars, tpVars, ilVars, blVars, lsVars, gcVars, lbVars>>

GetOnlineSources ==
  /\ lastCall' = Called("getOnlineSources", NoId)
  /\ UNCHANGED <<sources, stubSources, isInitialized>>
  /\ UNCHANGED <<now, mcVars, netVars, ncVars, batoVars, svcVars, exVars, plVars, clVars, tpVars, ilVars, blVars, lsVars, gcVars, lbVars>>

GetSourcesByLanguage(lang) ==
  /\ lastCall' = Called("getSourcesByLanguage", lang)
  /\ UNCHANGED <<sources, stubSources, isInitialized>>
  /\ UNCHANGED <<now, mcVars, netVars, ncVars, batoVars, svcVars, exVars, plVars, clVars, tpVars, ilVars, blVars, lsVars, gcVars, lbVars>>

GetAvailableLanguages ==
  /\ lastCall' = Called("getAvailableLanguages", NoId)
  /\ UNCHANGED <<sources, stubSources, isInitialized>>
  /\ UNCHANGED <<now, mcVars, netVars, ncVars, batoVars, svcVars, exVars, plVars, clVars, tpVars, ilVars, blVars, lsVars, gcVars, lbVars>>

\* clear()
Clear ==
  /\ sources' = EmptyMap
  /\ stubSources' = EmptyMap
  /\ isInitialized' = FALSE
  /\ lastCall' = Called("clear", NoId)
  /\ notified' = notifyListeners(listeners)
  /\ UNCHANGED listeners
  /\ UNCHANGED <<now, mcVars, netVars, ncVars, batoVars, svcVars, exVars, plVars, clVars, tpVars, ilVars, blVars, gcVars, lbVars>>

\* initialize(), clear() and registerSource with listeners coming and going
NextSMListeners ==
  \/ Initialize
  \/ Clear
  \/ \E l \in ListenerIds : AddListener(l)
  \/ \E l \in ListenerIds : RemoveListener(l)
  \/ \E source \in Registrable : RegisterSource(source)
  \/ \E id \in CallerIds : RegisterStubSource(id)

NextSM ==
  \/ Initialize
  \/ \E source \in Registrable : RegisterSource(source)
  \/ \E id \in CallerIds : RegisterStubSource(id)
  \/ \E id \in CallerIds : GetSource(id)
  \/ \E id \in CallerIds : GetSourceOrStub(id)
  \/ GetOnlineSources
  \/ \E lang \in Langs : GetSourcesByLanguage(lang)
  \/ GetAvailableLanguages
  \/ Clear

\* --------------------------------------------------------- specifications
InitNC == InitNCIn({"covers"})

InitNamespaces == InitNCIn(Namespaces)

Init == now = 0 /\ InitMC /\ InitNet /\ InitNC /\ InitBato /\ InitSvc /\ InitSM /\ InitExtract /\ InitPreload /\ InitClear /\ InitTransport /\ InitLoader /\ InitBatch /\ InitListeners /\ InitFeed /\ InitLibrary

SpecMC == Init /\ [][NextMC]_vars

SpecRL == Init /\ [][NextRL]_vars

\* finitely many acquire() calls, timers that fire and a clock that advances
SpecRLFair ==
  /\ Init /\ [][NextRLFinite]_vars
  /\ WF_vars(RLTickOn)
  /\ \A p \in RLCallers : WF_vars(AcquireAgain(p))

SpecFetch == Init /\ [][NextFetch]_vars

SpecLimited == Init /\ [][NextLimited]_vars

InitCaches == now = 0 /\ InitMC /\ InitNet /\ InitNamespaces /\ InitBato /\ InitSvc /\ InitSM /\ InitExtract /\ InitPreload /\ InitClear /\ InitTransport /\ InitLoader /\ InitBatch /\ InitListeners /\ InitFeed /\ InitLibrary

SpecNC == InitCaches /\ [][NextNC]_vars

SpecNCConcurrent == InitCaches /\ [][NextNCConcurrent]_vars

SpecBato == Init /\ [][NextBato]_vars

\* one tryBatoDomains call whose fetches settle and whose sleeps end
SpecBatoFair ==
  /\ Init /\ [][NextBatoOne]_vars
  /\ WF_vars(BatoSend(BatoOne))
  /\ WF_vars(\E o \in BatoOutcomes : BatoReceive(BatoOne, o))
  /\ WF_vars(BatoWake(BatoOne))

SpecSvc == Init /\ [][NextSvc]_vars

\* the source registry
SpecSM == Init /\ [][NextSM]_vars

\* extraction from any markup
InitMarkups ==
  now = 0 /\ InitMC /\ InitNet /\ InitNC /\ InitBato /\ InitSvc /\ InitSM /\ InitExtractIn(Markups) /\ InitPreload /\ InitClear /\ InitTransport /\ InitLoader /\ InitBatch /\ InitListeners /\ InitFeed /\ InitLibrary

SpecExtract == InitMarkups /\ [][NextExtract]_vars

\* clear() of a namespace cache, one call at a time
SpecClear == Init /\ [][NextClear]_vars

\* one call of fetchWithTimeout or of cloudflareBypassFetch
SpecTransport == Init /\ [][NextTransport]_vars

\* concurrent loadImage calls for one cacheKey
SpecLoader == Init /\ [][NextLoader]_vars

\* a BatchImageLoader: start(), the loads of its preloadImages, cancel()
SpecBatch == Init /\ [][NextBatch]_vars

\* the SourceManager with its listeners
SpecSMListeners == Init /\ [][NextSMListeners]_vars

\* getChapters of a MangaDex source
SpecFeed == Init /\ [][NextFeed]_vars

\* concurrent addToLibrary calls
SpecLibrary == Init /\ [][NextLibrary]_vars

\* batch preloading
SpecPreload == Init /\ [][NextPreload]_vars

\* batch preloading where every load settles and a settled promise is resumed
SpecPreloadFair ==
  /\ Init /\ [][NextPreload]_vars
  /\ \A w \in Workers : WF_vars(\E ok \in BOOLEAN : LoadSettles(w, ok))
  /\ WF_vars(PreloadResolves)

\* ------------------------------------------------------------------ claims
\* C1: at every time t at most RLPermits acquire() calls were admitted in the
\* window (t - RLPeriod, t]
C1_AdmissionsWithinPermits ==
  \A t \in 0..(RLMaxTime + RLPeriod) : Cardinality(AdmittedIn(t)) <= RLPermits

C1_Witness ==
  /\ \E p \in RLCallers : pc[p] = "waiting"
  /\ Len(admitted) > RLPermits
  /\ Cardinality(AdmittedIn(now)) = RLPermits


\* C2: the number of stored entries never exceeds maxSize
C2_SizeWithinCapacity == MCSize(memoryCache) <= memoryCache.maxSize

\* C8: set(k) removes another entry only when k is absent and the cache holds
\* maxSize entries, and then exactly the least recently used stored key
C8_SetEvictsExactlyLRU ==
  [][\A k \in Keys, v \in Values, ttl \in 0..MCMaxTTL :
       memoryCache' = MCSet(memoryCache, k, v, ttl, now) =>
         LET removed == (DOMAIN memoryCache.cache \ DOMAIN memoryCache'.cache) \ {k}
         IN IF k \notin DOMAIN memoryCache.cache /\ MCSize(memoryCache) = memoryCache.maxSize
            THEN removed = {Head(recency)}
            ELSE removed = {}]_vars

\* C9: after set(k, v, ttl) at time c with ttl > 0 and no later set, delete or
\* eviction of k, get(k) before c + ttl returns v, and get(k) after c + ttl is
\* absent and leaves k purged
C9_TtlBoundary ==
  \A k \in DOMAIN written :
     LET w == written[k]
         got == MCGet(memoryCache, k, now)
     IN w.ttl > 0 =>
          /\ now < w.at + w.ttl => got.value = w.value
          /\ now > w.at + w.ttl => got.value = Null /\ k \notin DOMAIN got.mc.cache

\* an entry written with a ttl is still stored after its expiry, and is read
C9_Witness ==
  \E k \in DOMAIN written :
     /\ written[k].ttl > 0
     /\ now > written[k].at + written[k].ttl
     /\ k \in DOMAIN memoryCache.cache
     /\ MCGet(memoryCache, k, now).value = Null

\* a response that isCloudflareChallenge takes for a challenge page
IsChallenge(o) == o.kind = "response" /\ isCloudflareChallenge(o.response)

\* after entry i of the history of p was followed by a sleep, attempt i + 1 (1-based)
\* is what the call does next, and not before the sleep is over
SleepsThenRetries(p, i, seconds) ==
  /\ history[p][i].sleep = seconds
  /\ Len(history[p]) = i =>
       \/ pc[p] = "backoff" /\ wakeAt[p] = history[p][i].at + seconds /\ attempt[p] = i - 1
       \/ pc[p] \in {"attempt", "inflight"} /\ attempt[p] = i /\ now >= history[p][i].at + seconds
  /\ Len(history[p]) > i => history[p][i + 1].at >= history[p][i].at + seconds

\* C4: with checkCloudflare, a challenge at attempt i < maxRetries - 1 is not
\* returned: the call sleeps 2^(i+1) s and makes attempt i + 1; challenge,
\* challenge, 200 with maxRetries = 3 succeeds after 2 s + 4 s of backoff
C4_ChallengeBackoff ==
  \A p \in Procs : config[p].checkCloudflare =>
    /\ \A i \in DOMAIN history[p] :
         (IsChallenge(history[p][i].outcome) /\ i - 1 < config[p].maxRetries - 1) =>
            /\ SleepsThenRetries(p, i, 2 ^ i)
            /\ result[p] # history[p][i].outcome
    /\ ( /\ config[p].maxRetries = 3 /\ Len(history[p]) = 3
         /\ IsChallenge(history[p][1].outcome) /\ IsChallenge(history[p][2].outcome)
         /\ IsOk(history[p][3].outcome) ) =>
            /\ pc[p] = "done" /\ result[p] = history[p][3].outcome
            /\ history[p][1].sleep + history[p][2].sleep = 2 + 4

C4_Witness ==
  /\ config[1] = DefaultConfig /\ pc[1] = "done" /\ Len(history[1]) = 3
  /\ IsChallenge(history[1][1].outcome) /\ IsChallenge(history[1][2].outcome)
  /\ result[1].kind = "response" /\ result[1].response.status = 200
  /\ history[1][3].at >= history[1][1].at + 6

\* a non-2xx response without challenge markers, or a transport exception
IsOrdinaryFailure(o) ==
  \/ o.kind = "error"
  \/ o.kind = "response" /\ ~IsOk(o) /\ ~IsChallenge(o)

\* C5 as claimed: every ordinary failure at attempt i < maxRetries - 1, of
\* either kind, is followed by a sleep of 2^i s and a further attempt
C5_OrdinaryFailureRetried ==
  \A p \in Procs : \A i \in DOMAIN history[p] :
     (IsOrdinaryFailure(history[p][i].outcome) /\ i - 1 < config[p].maxRetries - 1) =>
        SleepsThenRetries(p, i, 2 ^ (i - 1))

\* C5 as amended: a thrown fetch (connection failure or timeout) at attempt
\* i < maxRetries - 1 is followed by a sleep of 2^i s and a further attempt; a
\* non-2xx response without challenge markers ends the call, which returns it
C5_ExceptionRetriedResponseReturned ==
  \A p \in Procs : \A i \in DOMAIN history[p] :
     LET o == history[p][i].outcome IN
     /\ (o.kind = "error" /\ i - 1 < config[p].maxRetries - 1) =>
          SleepsThenRetries(p, i, 2 ^ (i - 1))
     /\ (o.kind = "response" /\ ~IsOk(o) /\ ~IsChallenge(o)) =>
          /\ history[p][i].sleep = 0 /\ Len(history[p]) = i
          /\ pc[p] = "done" /\ result[p] = o

C5_Witness ==
  /\ config[1].maxRetries = 3 /\ Len(history[1]) = 3 /\ pc[1] = "done"
  /\ history[1][1].outcome.kind = "error" /\ history[1][1].sleep = 1
  /\ history[1][2].outcome.kind = "error" /\ history[1][2].sleep = 2
  /\ history[1][3].outcome.response.status = 500 /\ result[1].response.status = 500

\* C10: a call with checkCloudflare all of whose attempts met a challenge ends
\* after exactly maxRetries attempts with the blocked error (CloudflareError),
\* which is neither the timeout nor the network error; no challenge is returned
C10_BlockedErrorAfterExhaustion ==
  \A p \in Procs :
     ( /\ config[p].checkCloudflare /\ pc[p] = "done" /\ history[p] # <<>>
       /\ \A i \in DOMAIN history[p] : IsChallenge(history[p][i].outcome) ) =>
          /\ Len(history[p]) = config[p].maxRetries
          /\ result[p].kind = "error"
          /\ result[p].error.name = "CloudflareError"
          /\ result[p].error.name \notin {ErrTimeout.name, ErrNetwork.name}

\* C7: every request sent by a rate-limited fetch, retries included, has an
\* admission by acquire() of its own, so at every time t at most RLPermits
\* requests were sent in the window (t - RLPeriod, t]
C7_EveryAttemptAcquires ==
  /\ Len(sent) <= Len(admitted)
  /\ \A t \in 0..(RLMaxTime + RLPeriod) : Cardinality(SentIn(t)) <= RLPermits

\* what a get(k) called now returns when its reads take no time: the memory
\* tier's value, else the unexpired value of the persistent tier
GetNow(key) ==
  LET hit == MCGet(nsMemory, key, now).value IN
  IF hit # Null THEN hit
  ELSE IF key \in DOMAIN storage /\ ~Expired(storage[key], now) THEN storage[key].value
  ELSE Null

\* C3: a value written by set(k, v) at time c is not returned by a get(k) that
\* is called later than c + TTL(namespace)
C3_NeverServedAfterTtl ==
  \A key \in NCKeys : GetNow(key) # Null => validUntil[key][GetNow(key)] >= now

\* C6: after a call succeeded on a domain whose predecessors failed, every call
\* started later sends its first request to that domain (the domain that
\* answered last when the call started), not to an earlier candidate
C6_StickyDomainFirst ==
  \A p \in BatoCallers : firstTried[p] # "" => firstTried[p] = stickyAtCall[p]

\* the error an attempt that failed produced: the exception of the fetch, or
\* the error thrown on a challenge
ErrorOfAttempt(o) == IF o.kind = "error" THEN o.error ELSE ErrChallenge

\* C11: a call makes at most maxRetries attempts, and when they all failed the
\* error it throws is the error of the final attempt
C11_LastErrorThrown ==
  \A p \in Procs :
     /\ Len(history[p]) + (IF pc[p] = "inflight" THEN 1 ELSE 0) <= config[p].maxRetries
     /\ (pc[p] = "done" /\ result[p].kind = "error" /\ history[p] # <<>>) =>
           result[p].error = ErrorOfAttempt(history[p][Len(history[p])].outcome)

C11_Witness ==
  /\ pc[1] = "done" /\ Len(history[1]) = 3 /\ config[1].checkCloudflare
  /\ history[1][1].outcome.error = ErrNetwork
  /\ IsChallenge(history[1][2].outcome)
  /\ history[1][3].outcome.error = ErrTimeout
  /\ result[1].error = ErrTimeout

\* every call of the namespace cache has completed
AllCallsCompleted == \A p \in NCCallers : ncCall[p].op = "idle"

\* C12: once all concurrent get / set / delete calls on a key have completed,
\* the memory tier holds no value for the key that the persistent tier does
\* not hold (a get never installs a value it read before a set or delete)
C12_MemoryAgreesWithStorage ==
  AllCallsCompleted =>
    \A key \in DOMAIN nsMemory.cache :
       key \in DOMAIN storage /\ storage[key].value = nsMemory.cache[key].value

\* the call of tryBatoDomains made by the capability call has settled
BatoSettled == isBatoSource(svc.source) /\ svc.pc = "done"

\* C13: a Bato search returns an empty result only after every domain
\* candidate has been tried: a candidate whose markup yields no records is
\* followed by the next candidate
C13_EmptyOnlyAfterAllDomains ==
  (BatoSettled /\ svc.result = SvcResult("list", 0)) =>
     batoCall[1].domain = Len(BATO_DOMAINS)

\* the transport of the capability call gave up: all Bato domains failed, or
\* GET threw after its last attempt
TransportExhausted ==
  /\ svc.pc = "done"
  /\ \/ isBatoSource(svc.source) /\ batoCall[1].result.kind = "error"
     \/ IsMangaDex(svc.source) /\ pc[1] = "done" /\ result[1].kind = "error"

\* C14: when the transport exhausted its retry budget the capability call
\* ends in an error, not in a result
C14_ExhaustionSurfacedAsError ==
  TransportExhausted => svc.result.kind = "error"

\* a source no backend supports: neither Bato-like nor MangaDex
Unsupported(source) == source # NoSource /\ ~isBatoSource(source) /\ ~IsMangaDex(source)

\* C15: a capability called with an unsupported source ends in an
\* unsupported-capability failure, not in an empty or absent result, and sends
\* no request
C15_UnsupportedReported ==
  (svc.pc = "done" /\ Unsupported(svc.source)) =>
     /\ svc.result.kind = "error"
     /\ sent = <<>> /\ batoCall[1].pc = "idle"

\* the ids a caller can pass: registered ones, stubbed ones, unknown ones, none
AnyIds == CallerIds \cup DOMAIN sources \cup DOMAIN stubSources \cup {"unknown", NoId}

IsStubObject(source) == source # NoSourceFound /\ source.isStub

\* C16: getSourceOrStub(id) never returns null: it returns the registered
\* source when id is registered, and otherwise a stub (isStub true, type
\* STUB); no stub is returned by getSource(id), and none is among
\* getOnlineSources() or getSourcesByLanguage(lang).
C16_StubsOnlyFromGetSourceOrStub ==
  /\ \A id \in AnyIds :
       LET found == getSourceOrStub(sources, stubSources, id).value IN
         /\ found # NoSourceFound
         /\ id \in DOMAIN sources => found = sources[id]
         /\ id \notin DOMAIN sources => (found.isStub /\ found.type = STUB)
         /\ ~IsStubObject(getSource(sources, id))
  /\ \A source \in getOnlineSources(sources) : ~source.isStub
  /\ \A lang \in Langs : \A source \in getSourcesByLanguage(sources, lang) : ~source.isStub

\* a stub was synthesized for an unknown id, and a stub object has been
\* registered as a source under another id
C16_Witness ==
  /\ lastCall = Called("getSourceOrStub", "ext")
  /\ "ext" \notin DOMAIN sources
  /\ "ext" \in DOMAIN stubSources /\ stubSources["ext"].name = "Source ext"
  /\ "bato_to" \in DOMAIN sources /\ sources["bato_to"].type = STUB

LookupMethods ==
  {"getSource", "getSourceOrStub", "getOnlineSources", "getSourcesByLanguage",
   "getAvailableLanguages"}

\* C17: a call of getSource, getSourceOrStub, getOnlineSources,
\* getSourcesByLanguage or getAvailableLanguages leaves the maps sources and
\* stubSources as they were, and every stored source is kept under its own id.
C17_LookupsLeaveMapsUnchanged ==
  [][ /\ lastCall'.method \in LookupMethods => UNCHANGED <<sources, stubSources>>
      /\ \A id \in DOMAIN sources' : sources'[id].id = id
      /\ \A id \in DOMAIN stubSources' : stubSources'[id].id = id ]_vars

\* the step on which caller p's set resolves (a restart drops the memory tier
\* instead)
SetResolves(p) ==
  /\ ncCall[p].op = "setItem"
  /\ ncCall'[p].op = "idle"
  /\ nsMemory' = nsMemory

\* C18: when set(key, value) of a namespace cache resolves, the memory tier
\* and the persistent tier both hold value for key, also when the write to
\* the persistent store failed.
C18_SetUpdatesBothTiers ==
  [][ \A p \in NCCallers :
        SetResolves(p) =>
          LET key == ncCall[p].key
              value == ncCall[p].data.value IN
            /\ key \in DOMAIN nsMemory'.cache /\ nsMemory'.cache[key].value = value
            /\ key \in DOMAIN storage' /\ storage'[key].value = value ]_vars

\* the attempt ended because the timer of fetchWithTimeout aborted it
TimedOut(o) == o.kind = "error" /\ o.error = ErrTimeout

MeetsAllConditions(cfg, r) ==
  /\ cfg.checkCloudflare
  /\ r.status \in {403, 503}
  /\ r.server \in {"cloudflare", "cloudflare-nginx"}
  /\ r.marker

\* entry i of the history of p was handled as a challenge: followed by the
\* challenge backoff, or by the challenge error when it was the final attempt
TreatedAsBlocked(p, i) ==
  IF i < config[p].maxRetries
  THEN history[p][i].sleep = ChallengeBackoff(i - 1)
  ELSE pc[p] = "done" /\ result[p].kind = "error" /\ result[p].error = ErrChallenge

\* entry i of the history of p was returned to the caller, with its status
\* and with a body that has not been consumed
ReturnedReadable(p, i) ==
  /\ i = Len(history[p]) /\ pc[p] = "done" /\ history[p][i].sleep = 0
  /\ result[p].kind = "response"
  /\ result[p].response.status = history[p][i].outcome.response.status
  /\ ~result[p].response.bodyUsed

\* C20: a response is treated as blocked exactly when checkCloudflare is on,
\* its status is 403 or 503, its server header names Cloudflare and its body
\* holds a challenge marker; every other response is returned to the caller
\* with its status and a body that can still be read.
C20_BlockedIffAllConditions ==
  \A p \in Procs : \A i \in DOMAIN history[p] :
     LET o == history[p][i].outcome IN
       o.kind = "response" =>
          IF MeetsAllConditions(config[p], o.response)
          THEN TreatedAsBlocked(p, i) /\ ~ReturnedReadable(p, i)
          ELSE ReturnedReadable(p, i) /\ ~TreatedAsBlocked(p, i)

\* a 503 of Cloudflare without marker was returned by a call that checks for
\* challenges, after a challenge had been retried
C20_Witness ==
  /\ pc[1] = "done" /\ config[1].checkCloudflare /\ config[1].maxRetries = 3
  /\ Len(history[1]) = 2
  /\ MeetsAllConditions(config[1], history[1][1].outcome.response)
  /\ history[1][2].outcome.response = Response(503, "cloudflare", FALSE)
  /\ result[1].response.status = 503

\* C21: a tryBatoDomains call starts with the first of BATO_DOMAINS, has one
\* position only (so at most one request in flight), and moves to candidate
\* i + 1 only from candidate i, only when the request or the sleep of the last
\* attempt against candidate i has ended without an OK response; it never
\* moves back to a candidate it has visited.
C21_DomainsStrictlyInOrder ==
  [][ \A p \in BatoCallers :
        LET c == batoCall[p]
            d == batoCall'[p] IN
          /\ (c.pc = "idle" /\ d.pc # "idle") => (d.pc = "fetch" /\ d.domain = 1)
          /\ (c.pc # "idle" /\ d.pc # "idle") => d.domain \in {c.domain, c.domain + 1}
          /\ (c.pc # "idle" /\ d.domain = c.domain + 1) =>
                /\ c.pc \in {"inflight", "sleep"}
                /\ d.pc = "fetch" /\ d.attempt = 0
                /\ d.result = NoResult
                /\ CURRENT_BATO_URL' = CURRENT_BATO_URL
          /\ (d.pc = "inflight" /\ c.pc # "inflight") =>
                (c.pc = "fetch" /\ d.domain = c.domain) ]_vars

\* one call has its request to the third candidate in flight while another
\* call is still at the first
C21_Witness ==
  /\ batoCall[1].pc = "inflight" /\ batoCall[1].domain = 3
  /\ batoCall[2].pc = "inflight" /\ batoCall[2].domain = 1

\* C22: the relative URLs of the records of a Bato call are completed with
\* the domain that served the markup of that call, whatever other Bato calls
\* did meanwhile.
C22_ResolvedAgainstServingDomain ==
  \A p \in BatoCallers :
     batoCall[p].pc = "parsed" => resolvedAgainst[p] = BATO_DOMAINS[batoCall[p].domain]

\* C23: two runs of the listing extraction on the same markup give the same
\* records, whatever happened to CURRENT_BATO_URL between them.
C23_ExtractionIdempotent ==
  Len(extracted) = 2 => extracted[1].records = extracted[2].records

\* the blocks of the winning pattern of the markup in hand
CandidateBlocks == IF Winner(html) = 0 THEN <<>> ELSE html[Winner(html)]

\* those of them from which an identifier can be resolved
Identified == SelectSeq(CandidateBlocks, LAMBDA card : card.id # "")

\* C24 as stated: a block of the winning pattern gives a record exactly when
\* an identifier resolves from it, so there are as many records as blocks
\* with an identifier.
C24_OneRecordPerIdentifiedBlock ==
  \A n \in DOMAIN extracted : Len(extracted[n].records) = Len(Identified)

\* C24: the records are, in order, the first MaxListed (in the code: 20)
\* blocks of the winning pattern that carry an identifier, whether or not
\* they have a title or a cover; blocks without identifier give no record.
C24_RecordPerIdentifiedBlockUpToLimit ==
  \A n \in DOMAIN extracted :
     LET records == extracted[n].records IN
       /\ Len(records) = (IF Len(Identified) < MaxListed THEN Len(Identified) ELSE MaxListed)
       /\ \A i \in DOMAIN records :
             /\ records[i].id = Identified[i].id
             /\ records[i].title = (IF Identified[i].title = "" THEN "Unknown Title"
                                    ELSE Identified[i].title)

\* three blocks with an identifier, one of them without title and cover, and
\* one block without identifier: three records
C24_Witness ==
  /\ extracted # <<>>
  /\ Len(CandidateBlocks) = 4 /\ Len(Identified) = 3
  /\ CandidateBlocks[2].id = ""
  /\ CandidateBlocks[3] = Card("a", "", "")
  /\ Len(extracted[1].records) = 3

\* C25: a Bato call resolves with a list, whatever its requests ended in and
\* whatever the markup held; it never rejects.
C25_BatoCallsResolveWithList ==
  (svc.pc = "done" /\ isBatoSource(svc.source)) => svc.result.kind = "list"

\* every domain failed, and the call resolved with the empty list
C25_Witness ==
  /\ svc.pc = "done" /\ isBatoSource(svc.source)
  /\ batoCall[1].result.error = ErrAllDomainsFailed
  /\ svc.result = SvcResult("list", 0)

\* the workers that have a loadImage call in flight
InFlight == {w \in Workers : loading[w] # 0}

\* how often position i of urls occurs in a sequence of positions
Occurrences(positions, i) == Cardinality({k \in DOMAIN positions : positions[k] = i})

\* C26: while preloadImages runs, at most `concurrent` loads are in flight,
\* and every position of urls is in exactly one place: still queued, being
\* loaded by one worker, or in the results once.
C26_AtMostConcurrentLoads ==
  preloadState # "idle" =>
     /\ Cardinality(InFlight) <= concurrent
     /\ \A i \in DOMAIN urls :
           Occurrences(preloadQueue, i)
             + Cardinality({w \in Workers : loading[w] = i})
             + Cardinality({k \in DOMAIN preloadResults : preloadResults[k].url = i}) = 1

\* two loads in flight, one url still queued, of a preload with concurrent 2
C26_Witness ==
  /\ preloadState = "running" /\ concurrent = 2
  /\ Cardinality(InFlight) = 2
  /\ preloadQueue # <<>>

\* the preload has resolved with one result entry per position of urls
ResolvedComplete ==
  /\ preloadState = "resolved"
  /\ Len(preloadResults) = Len(urls)
  /\ \A i \in DOMAIN urls : \E k \in DOMAIN preloadResults : preloadResults[k].url = i

\* C27: when every load settles, a running preloadImages resolves, with one
\* result entry per input url, failed loads included.
C27_PreloadResolvesComplete ==
  (preloadState = "running") ~> ResolvedComplete

\* a preload of three urls resolved although its first load failed
C27_Witness ==
  /\ preloadState = "resolved" /\ Len(urls) = 3 /\ concurrent = 1
  /\ Len(preloadResults) = 3
  /\ ~preloadResults[1].success /\ preloadResults[3].success

\* the backend a capability call in progress has been forwarded to
ForwardedTo ==
  IF svc.pc = "callBato" THEN "BatoService"
  ELSE IF svc.pc = "callDex" THEN "MangaDex API"
  ELSE ""

\* C28: a call for a built-in source is forwarded to the backend of that
\* source: for Bato and Xbato the service registered with it, for MangaDex
\* the JSON API.
C28_ForwardedToOwnBackend ==
  (svc.source \in {BatoSource, XbatoSource, MangaDexSource} /\ svc.pc \in {"callBato", "callDex"}) =>
     ForwardedTo = (IF svc.source = MangaDexSource THEN "MangaDex API" ELSE ServiceOf(svc.source))

\* the patterns that match something in the markup in hand
Matching == {k \in DOMAIN mangaPatterns : html[k] # <<>>}

\* the blocks of pattern k that carry an identifier
IdentifiedOf(k) == SelectSeq(html[k], LAMBDA card : card.id # "")

KeysOutside(ns) == {key \in DOMAIN asyncStorage : ~StartsWith(key, CACHE_KEYS(ns))}

\* C30: every step of clear() of a namespace leaves the memory caches of the
\* other namespaces and every AsyncStorage entry outside the namespace as
\* they were, and once clear() has resolved, get of every id of the
\* namespace is absent.
C30_ClearRemovesOwnNamespaceOnly ==
  [][ \A ns \in Namespaces :
        (clearCall'.pc # "idle" /\ clearCall' # clearCall /\ clearCall'.ns = ns) =>
          /\ \A other \in Namespaces \ {ns} : memoryOf'[other] = memoryOf[other]
          /\ \A key \in KeysOutside(ns) :
                key \in DOMAIN asyncStorage' /\ asyncStorage'[key] = asyncStorage[key]
          /\ clearCall'.pc = "resolved" =>
                \A id \in CacheIds :
                   /\ id \notin DOMAIN memoryOf'[ns]
                   /\ StorageKey(ns, id) \notin DOMAIN asyncStorage'
                   /\ CacheGetValue(ns, id)' = Null ]_vars

\* the covers were cleared while chapters, manga, a preference and the
\* extensions list stay in AsyncStorage and a chapter list stays in memory
C30_Witness ==
  /\ clearCall = ClearCall("resolved", "covers", {StorageKey("covers", "1"), StorageKey("covers", "2")})
  /\ StorageKey("chapters", "1") \in DOMAIN asyncStorage
  /\ StorageKey("manga", "2") \in DOMAIN asyncStorage
  /\ StorageKey("preferences", "theme") \in DOMAIN asyncStorage
  /\ CACHE_KEYS("extensions") \in DOMAIN asyncStorage
  /\ "1" \in DOMAIN memoryOf["chapters"]

\* the final attempt of a cloudflareBypassFetch call met a challenge
FinalAttemptChallenged ==
  /\ transport.fn = "cloudflareBypassFetch"
  /\ Len(attemptLog) = BATO_MAX_RETRIES
  /\ attemptLog[BATO_MAX_RETRIES] = "challenge"

\* C31: once the final attempt of cloudflareBypassFetch has ended in a
\* challenge the call has failed, without a further sleep, and the error it
\* throws is the blocked error, not the error of an earlier attempt.
C31_ExhaustedWhileBlocked ==
  FinalAttemptChallenged =>
    /\ transport.pc = "done"
    /\ transport.result.kind = "error"
    /\ transport.result.error = ErrChallenge

\* C34: in fetchWithTimeout and in cloudflareBypassFetch the only timer that
\* can be armed is the one of the attempt whose fetch is in flight: the timer
\* of an attempt that has ended is cleared.
C34_NoTimerOfFinishedAttempt ==
  \A a \in timers : transport.pc = "inflight" /\ a = transport.attempt

\* caller p's call ran with the default configuration and every attempt of it
\* ended in a transport exception
AllAttemptsThrew(p) ==
  /\ config[p] = DefaultConfig /\ pc[p] = "done" /\ history[p] # <<>>
  /\ \A i \in DOMAIN history[p] : history[p][i].outcome.kind = "error"

\* C32: a fetchWithRetry call with the default configuration whose attempts
\* all fail with transport exceptions makes 3 retries after the initial
\* attempt, and waits 1 s, 2 s and 4 s before them.
C32_ThreeRetriesOneTwoFour ==
  \A p \in Procs :
     AllAttemptsThrew(p) =>
        /\ Len(history[p]) = 1 + 3
        /\ \A i \in 1..3 : history[p][i].sleep = Pow2(i - 1)

\* the callers whose _fetchImage is in flight
Fetching == {p \in Loaders : loadCall[p].pc = "_fetchImage"}

\* C33: for the cacheKey at most one _fetchImage is in flight at any time,
\* whatever useCache is, and the key is recorded in loadingImages only while
\* the fetch of the call that recorded it is in flight.
C33_OneFetchPerKey ==
  /\ Cardinality(Fetching) <= 1
  /\ loadingImages # Null => loadingImages \in Fetching

\* C35: with finitely many acquire() calls, timers that fire and a clock
\* that advances, every caller that waits in acquire() is admitted in the end.
C35_EveryAcquireResolves ==
  \A p \in RLCallers : (pc[p] = "waiting") ~> (pc[p] = "resolved")

\* two callers wait at once behind a full window
C35_Witness ==
  \E p, q \in RLCallers :
     /\ p # q /\ pc[p] = "waiting" /\ pc[q] = "waiting"
     /\ wakeAt[p] > now /\ wakeAt[q] > now
     /\ Len(requestQueue) = RLPermits

\* cancel() was called during the run of start() that is still under way
CancelledRun == batch.cancelled /\ batch.pc = "preloadImages"

\* C36: once cancel() was called during a run of start(), no worker of the
\* run takes another url to load and no onImageLoaded or onError callback is
\* delivered for the run.
C36_NothingAfterCancel ==
  [][ CancelledRun =>
        /\ \A w \in Workers : loading'[w] # loading[w] => loading'[w] = 0
        /\ delivered' = delivered ]_vars

\* the registry that holds the built-in sources and nothing else
BuiltInsOnly ==
  Registered(Registered(Registered(EmptyMap,
      BUILT_IN_SOURCES[1]), BUILT_IN_SOURCES[2]), BUILT_IN_SOURCES[3])

\* C38: initialize() on an initialized manager changes neither map and calls
\* no listener; clear() leaves both maps empty and isInitialized false; the
\* initialize() that follows a clear() registers the built-in sources and
\* nothing else, and calls every listener once.
C38_InitializeIdempotent ==
  [][ /\ (lastCall'.method = "initialize" /\ isInitialized) =>
            /\ sources' = sources /\ stubSources' = stubSources /\ isInitialized'
            /\ \A l \in ListenerIds : notified'[l] = 0
      /\ lastCall'.method = "clear" =>
            sources' = EmptyMap /\ stubSources' = EmptyMap /\ ~isInitialized'
      /\ (lastCall'.method = "initialize" /\ lastCall.method = "clear") =>
            /\ sources' = BuiltInsOnly /\ stubSources' = EmptyMap /\ isInitialized'
            /\ \A l \in ListenerIds : notified'[l] = IF l \in listeners THEN 1 ELSE 0 ]_vars

\* the manager was initialized again after a clear() and both listeners were
\* called
C38_Witness ==
  /\ lastCall.method = "initialize" /\ isInitialized
  /\ listeners = ListenerIds
  /\ \A l \in ListenerIds : notified[l] = 1
  /\ sources = BuiltInsOnly

C40_AddedStaysAdded ==
  /\ \A manga \in addedTrue : Exists(library, manga)
  /\ \A i, j \in DOMAIN library : library[i] = library[j] => i = j

\* the place of a call in the |BATO_DOMAINS| x 3 grid of (candidate, attempt)
GridPlace(c) == (c.domain - 1) * BATO_MAX_RETRIES + c.attempt

\* the call of BatoOne has returned an OK response or thrown 'All Bato
\* domains failed'
BatoEnded ==
  /\ batoCall[BatoOne].pc = "done"
  /\ \/ IsOk(batoCall[BatoOne].result)
     \/ batoCall[BatoOne].result = Outcome("error", NoResponse, ErrAllDomainsFailed)

\* C37: a tryBatoDomains call ends, with the first OK response or with 'All
\* Bato domains failed'; each of its fetches has a place of its own in the
\* grid of |BATO_DOMAINS| candidates x 3 attempts, later fetches at later
\* places, so there are at most |BATO_DOMAINS| x 3 of them; and a 404 makes
\* the call go to the next candidate without another attempt.
C37_BoundedFailover ==
  /\ (batoCall[BatoOne].pc \in {"fetch", "inflight", "sleep"}) ~> BatoEnded
  /\ [](batoCall[BatoOne].pc \in {"fetch", "inflight", "sleep"} =>
          /\ batoCall[BatoOne].domain \in DOMAIN BATO_DOMAINS
          /\ batoCall[BatoOne].attempt \in 0..(BATO_MAX_RETRIES - 1))
  /\ [][ (batoCall'[BatoOne].pc = "fetch" /\ batoCall[BatoOne].pc # "idle"
            /\ batoCall'[BatoOne] # batoCall[BatoOne]) =>
           GridPlace(batoCall'[BatoOne]) > GridPlace(batoCall[BatoOne]) ]_vars
  /\ [][ \A o \in BatoOutcomes :
           (o.kind = "response" /\ o.response.status = 404 /\ BatoReceive(BatoOne, o)) =>
              batoCall'[BatoOne] = NextDomain(batoCall[BatoOne]) ]_vars

\* every candidate was tried three times and the call failed
C37_Witness ==
  /\ batoCall[BatoOne].pc = "done"
  /\ batoCall[BatoOne].result.error = ErrAllDomainsFailed
  /\ batoCall[BatoOne].domain = Len(BATO_DOMAINS)
  /\ batoCall[BatoOne].attempt = BATO_MAX_RETRIES - 1
  /\ batoCall[BatoOne].lastError = ErrNetwork

====
